---- MODULE Spec2Model ----
(***************************************************************************)
(* A model of the `theory` book library: the BookBuilder, the v1 container *)
(* writer and loader, the data-block writer and reader, the KV-list and    *)
(* metadata codecs, the page index and the table-of-contents builder.      *)
(*                                                                         *)
(* Streams are std::io::Cursor values over a byte vector: a record with    *)
(* the bytes (buf) and the cursor position (pos, 0-based).                 *)
(*                                                                         *)
(* Machine integers: u32 and u64 values are held as their residue closest  *)
(* to zero, so the all-ones patterns `!0` are written -1 and a wrapping    *)
(* addition of a small number is plain addition.  The inputs of the model  *)
(* are small, so every other value is an ordinary natural number.          *)
(***************************************************************************)
EXTENDS Integers, Sequences, FiniteSets, TLC

VARIABLES
    build,      \* "debug" (overflow checks on) or "release" (wrapping arithmetic),
                \* "any" when the run so far is the same in both
    pc,         \* position in the life of the book
    builder,    \* the BookBuilder
    out,        \* the output stream given to dump, as left by dump
    beginning,  \* stream position at which dump started writing
    dumped,     \* result of BookBuilder::dump
    book,       \* the loaded Book (or the error Book::load returned)
    last,       \* the last Book operation and its result
    ix,         \* the page index as written in the file, when it is not dump's
    kv,         \* a KV-list or book-metadata codec at work: the entries, the
                \* bytes, the parser and the items it has returned
    db          \* a data-block writer or reader at work, on a stream of its own

vars == <<build, pc, builder, out, beginning, dumped, book, last, ix, kv, db>>

-----------------------------------------------------------------------------
(* Bounds of the model.                                                    *)

MaxPages == 2       \* pages a builder gets in the dump/load scenario
MaxPrefix == 1      \* bytes already in the output before dump starts
MaxBookMeta == 1    \* book metadata entries added to a builder
MaxEdits == 2       \* page attributes set on the pages of such a builder
MaxIndex == 3       \* entries of an on-disk page index given to Index::new
MaxTocId == 4       \* pages of the books with arbitrary parents given to toc
MaxChain == 34      \* pages of the longest single-chain book given to toc

-----------------------------------------------------------------------------
(* Program constants.                                                      *)

MAGIC_SIZE == 8
MAX_SUB_LEVEL == 32
MAX_DATA_BLOCK_SIZE == 65536
LRU_CACHE_SIZE == 16
U64Max == -1        \* u64::MAX, `!0`
U32Max == -1        \* u32 `!0`
U16Max == 65535     \* u16::MAX

MAGIC == <<137, 1, 84, 72, 82, 80, 75, 71>>

-----------------------------------------------------------------------------
(* Sequences and fixed-width integers.                                     *)

Take(s, n) == SubSeq(s, 1, n)
Drop(s, n) == SubSeq(s, n + 1, Len(s))
Zeros(n) == [i \in 1..n |-> 0]

Reverse(q) == [i \in 1..Len(q) |-> q[Len(q) + 1 - i]]

RECURSIVE Concat(_)
Concat(ss) == IF ss = <<>> THEN <<>> ELSE Head(ss) \o Concat(Tail(ss))

\* u32::to_be_bytes (endiannezz big-endian write of a u32 field)
to_be_bytes_u32(n) ==
    << (n \div 16777216) % 256, (n \div 65536) % 256, (n \div 256) % 256, n % 256 >>

\* u32::from_be_bytes; values with the top bit set come back as residues
from_be_bytes_u32(b) ==
    (IF b[1] >= 128 THEN b[1] - 256 ELSE b[1]) * 16777216
        + b[2] * 65536 + b[3] * 256 + b[4]

\* u32::try_from of a u64/usize: fails for values that need more than 32 bits.
\* Such values only arise here as wrapped (negative residue) u64 values,
\* or as the wide values below.
fits_u32(n) == n >= 0

\* A value of 2^30 or more is held in two parts, hi * 2^30 + lo.
\* u32::try_from of such a value, and u32::to_be_bytes of one that fits
fits_u32_wide(hi, lo) ==
    IF hi = 0 THEN fits_u32(lo) ELSE lo >= 0 /\ hi + (lo \div 1073741824) < 4
to_be_bytes_u32_wide(hi, lo) ==
    IF hi = 0 THEN to_be_bytes_u32(lo)
    ELSE << ((hi + (lo \div 1073741824)) % 4) * 64 + ((lo % 1073741824) \div 16777216),
            (lo \div 65536) % 256, (lo \div 256) % 256, lo % 256 >>

-----------------------------------------------------------------------------
(* std::io::Cursor<Vec<u8>>                                                *)

Cursor(bytes, p) == [buf |-> bytes, pos |-> p]

\* Write::write_all on a cursor over a vector: overwrite at pos, extend at
\* the end, zero-fill a gap.
padded(s) == IF s.pos > Len(s.buf) THEN s.buf \o Zeros(s.pos - Len(s.buf)) ELSE s.buf
write_all(s, bytes) ==
    [buf |-> Take(padded(s), s.pos) \o bytes \o Drop(padded(s), s.pos + Len(bytes)),
     pos |-> s.pos + Len(bytes)]

\* the part of the position of a stream above 2^30, in units of 2^30: a
\* stream that stands that far has the field hi
stream_hi(s) == IF "hi" \in DOMAIN s THEN s.hi ELSE 0

\* Seek::seek(SeekFrom::Start(p))
seek(s, p) == [s EXCEPT !.pos = p]

\* Read::read_exact: the bytes, or an UnexpectedEof error; a read of no
\* byte succeeds wherever the stream stands
can_read(s, n) == n = 0 \/ (s.pos >= 0 /\ n >= 0 /\ s.pos + n <= Len(s.buf))
read_bytes(s, n) == SubSeq(s.buf, s.pos + 1, s.pos + n)
advance(s, n) == [s EXCEPT !.pos = IF can_read(s, n) THEN s.pos + n ELSE Len(s.buf)]

-----------------------------------------------------------------------------
(* LEB128 unsigned integers (crate leb128).                                *)

\* stands for every decoded value from 2^30 up to 2^64 - 2^28 - 1; the
\* values above, 2^64 - 2^28 + a, are held as the residue a - 2^28
HugeLen == 1024 * 1048576

\* a faulty variant of leb128_write: one byte for every number
leb128_write_one_byte(n) == <<n % 256>>

RECURSIVE leb128_write(_)
leb128_write(n) ==
    IF n < 128 THEN <<n>>
    ELSE <<(n % 128) + 128>> \o leb128_write(n \div 128)

Pow128(k) == IF k = 0 THEN 1 ELSE IF k = 1 THEN 128 ELSE IF k = 2 THEN 16384
             ELSE IF k = 3 THEN 2097152 ELSE 268435456

\* leb128::read::unsigned from a cursor: [res, val, s] with res "Ok",
\* "IoError" (end of input) or "Overflow".
\* The groups 0..3 give the low 28 bits a.  A value whose groups 4..8 are
\* all ones is held as a - 2^28 while it is read: it is 2^64 - 2^28 + a
\* when the group 9 is 1.
leb128_add(acc, k, low) ==
    IF acc = HugeLen THEN HugeLen
    ELSE IF k < 4 THEN acc + low * Pow128(k)
    ELSE IF acc < 0 THEN (IF (k < 9 /\ low = 127) \/ (k = 9 /\ low = 1) THEN acc ELSE HugeLen)
    ELSE IF low = 0 THEN acc
    ELSE IF k = 4 /\ low <= 3 THEN acc + low * Pow128(k)
    ELSE IF k = 4 /\ low = 127 THEN acc - Pow128(4)
    ELSE HugeLen

\* the value read when the last group is the k-th
leb128_value(acc, k) == IF acc < 0 /\ k < 9 THEN HugeLen ELSE acc

\* the tenth byte holds more than the last bit of a u64: the bytes of the
\* number are read to their end, the first byte without continuation bit,
\* before Overflow is returned; b is the byte read last
RECURSIVE leb128_overflow(_, _)
leb128_overflow(s, b) ==
    IF b < 128 THEN [res |-> "Overflow", val |-> 0, s |-> s]
    ELSE IF ~can_read(s, 1) THEN [res |-> "IoError", val |-> 0, s |-> advance(s, 1)]
    ELSE leb128_overflow(advance(s, 1), s.buf[s.pos + 1])

RECURSIVE leb128_read_from(_, _, _)
leb128_read_byte(s1, k, acc1, b) ==
    IF k = 9 /\ b \notin {0, 1} THEN leb128_overflow(s1, b)
    ELSE IF b < 128 THEN [res |-> "Ok", val |-> leb128_value(acc1, k), s |-> s1]
    ELSE leb128_read_from(s1, k + 1, acc1)

leb128_read_from(s, k, acc) ==
    IF ~can_read(s, 1) THEN [res |-> "IoError", val |-> 0, s |-> advance(s, 1)]
    ELSE leb128_read_byte(advance(s, 1), k, leb128_add(acc, k, s.buf[s.pos + 1] % 128),
                          s.buf[s.pos + 1])

leb128_read(s) == leb128_read_from(s, 0, 0)

-----------------------------------------------------------------------------
(* Option values, strings (UTF-8 bytes), metadata entries, pages.          *)

None == [some |-> FALSE, v |-> <<>>]
Some(x) == [some |-> TRUE, v |-> x]

\* String::from_utf8: the bytes are well-formed UTF-8.  A sequence starts
\* with a lead byte and goes on with continuation bytes (80..BF); the
\* second byte is held to a narrower range after E0, ED, F0 and F4, which
\* shuts out overlong forms, surrogates and values above 10FFFF.
\* utf8_width is the length of the sequence that starts at i, 0 for none.
is_continuation(b) == b >= 128 /\ b <= 191

utf8_second_ok(lead, b) ==
    CASE lead = 224 -> b >= 160 /\ b <= 191
      [] lead = 237 -> b >= 128 /\ b <= 159
      [] lead = 240 -> b >= 144 /\ b <= 191
      [] lead = 244 -> b >= 128 /\ b <= 143
      [] OTHER -> is_continuation(b)

utf8_lead_width(b) ==
    IF b < 128 THEN 1
    ELSE IF b >= 194 /\ b <= 223 THEN 2
    ELSE IF b >= 224 /\ b <= 239 THEN 3
    ELSE IF b >= 240 /\ b <= 244 THEN 4
    ELSE 0

utf8_width(bytes, i) ==
    IF utf8_lead_width(bytes[i]) = 0 \/ i + utf8_lead_width(bytes[i]) - 1 > Len(bytes) THEN 0
    ELSE IF utf8_lead_width(bytes[i]) = 1 THEN 1
    ELSE IF /\ utf8_second_ok(bytes[i], bytes[i + 1])
            /\ \A k \in (i + 2)..(i + utf8_lead_width(bytes[i]) - 1) : is_continuation(bytes[k])
    THEN utf8_lead_width(bytes[i])
    ELSE 0

\* every byte starts a sequence, or it is a continuation byte of the
\* sequence that starts up to three bytes before it
valid_utf8(bytes) ==
    \A i \in 1..Len(bytes) :
        IF is_continuation(bytes[i])
        THEN \E j \in 1..(i - 1) : i - j <= 3 /\ utf8_width(bytes, j) > i - j
        ELSE utf8_width(bytes, i) > 0

\* a u64 is held as its two halves of 32 bits, each one as a u32 is held
\* (a half with the top bit set is a residue): every u64 has one value
\* here, and no two have the same.  u64(n) is the u64 of a number below
\* 2^31.
u64(n) == [hi |-> 0, lo |-> n]

\* MetadataEntry (book level): tag name, string values a and b, and the
\* u64 d of a Date (the zero in the other entries).
Entry(tag, a, b, d) == [tag |-> tag, a |-> a, b |-> b, d |-> d]
Title(s) == Entry("Title", s, <<>>, u64(0))
Author(s) == Entry("Author", s, <<>>, u64(0))
Language(s) == Entry("Language", s, <<>>, u64(0))
Date(d) == Entry("Date", <<>>, <<>>, d)
License(s) == Entry("License", s, <<>>, u64(0))
Keyword(s) == Entry("Keyword", s, <<>>, u64(0))
User(k, v) == Entry("User", k, v, u64(0))

\* metadata::ByteTag as u8, and ByteTag::try_from
ByteTag(tag) ==
    CASE tag = "Title" -> 1 [] tag = "Author" -> 2 [] tag = "Language" -> 3
      [] tag = "Date" -> 4 [] tag = "License" -> 5 [] tag = "Keyword" -> 6
      [] tag = "User" -> 100
ByteTagNames == {"Title", "Author", "Language", "Date", "License", "Keyword", "User"}
ByteTag_try_from(b) ==
    IF \E t \in ByteTagNames : ByteTag(t) = b
    THEN Some(CHOOSE t \in ByteTagNames : ByteTag(t) = b) ELSE None

\* u64::to_be_bytes / u64::from_be_bytes: the high half, then the low half
to_be_bytes_u64(d) == to_be_bytes_u32(d.hi) \o to_be_bytes_u32(d.lo)
from_be_bytes_u64(b) ==
    [hi |-> from_be_bytes_u32(Take(b, 4)), lo |-> from_be_bytes_u32(Drop(b, 4))]

\* the `w!` macro of metadata::dump: tag, then each value with its length
w_value(bytes) == leb128_write(Len(bytes)) \o bytes
metadata_entry_bytes(e) ==
    <<ByteTag(e.tag)>> \o
    (CASE e.tag = "Date" -> w_value(to_be_bytes_u64(e.d))
       [] e.tag = "User" -> w_value(e.a) \o w_value(e.b)
       [] OTHER -> w_value(e.a))

RECURSIVE metadata_bytes(_)
metadata_bytes(entries) ==
    IF entries = <<>> THEN <<>>
    ELSE metadata_entry_bytes(Head(entries)) \o metadata_bytes(Tail(entries))

\* metadata::dump
metadata_dump(output, metadata) ==
    write_all(output, metadata_bytes(metadata) \o <<0>>)

\* A page as page::persistence reads and writes it.
Page(id, parent_id, title, keywords, description, content) ==
    [id |-> id, parent_id |-> parent_id, title |-> title, keywords |-> keywords,
     description |-> description, content |-> content]

\* Page::new: the page of a builder holds a list of metadata entries that
\* starts with its title; title, keywords and description are the fields
\* page::persistence reads when it dumps the page.
Page_new(title, id) ==
    [id |-> id, parent_id |-> 0, metadata |-> <<Title(title)>>, title |-> title,
     keywords |-> None, description |-> None, content |-> <<>>]

-----------------------------------------------------------------------------
(* persistence::kvlist, with the page ByteTag of page::persistence.        *)

\* page::persistence::ByteTag as u8:  Title = 1, Keywords = 2, Description = 3
PageTags == {1, 2, 3}

\* kvlist::serialize over (tag, bytes) pairs
kvlist_pair(p) == <<p[1]>> \o leb128_write(Len(p[2])) \o p[2]

RECURSIVE kvlist_pairs(_)
kvlist_pairs(pairs) ==
    IF pairs = <<>> THEN <<>>
    ELSE kvlist_pair(Head(pairs)) \o kvlist_pairs(Tail(pairs))

\* a faulty variant of kvlist_serialize: no terminator after the pairs
kvlist_serialize_unterminated(pairs) == kvlist_pairs(pairs)

kvlist_serialize(pairs) == kvlist_pairs(pairs) \o <<0>>

-----------------------------------------------------------------------------
(* persistence::datablock::writer                                          *)

Uncompressed == 1   \* BlockType::Uncompressed, the tag of BlockCompression::None

\* BlockCompression: None, Deflate(level), Lz4, and BlockCompression::tag
BlockCompression_None == [kind |-> "None", level |-> 0]
Deflate(level) == [kind |-> "Deflate", level |-> level]
Lz4 == [kind |-> "Lz4", level |-> 0]
BlockCompression_tag(c) ==
    CASE c.kind = "None" -> Uncompressed [] c.kind = "Deflate" -> 2 [] c.kind = "Lz4" -> 3

\* What the encoders leave in the stream for the bytes written to them.
\*
\* DEFLATE at level 0: stored blocks (RFC 1951, 3.2.4), LEN and NLEN little
\* endian, the first byte 1 in the last block and 0 in the others.
stored_block(final, bytes) ==
    <<final, Len(bytes) % 256, Len(bytes) \div 256,
      255 - (Len(bytes) % 256), 255 - (Len(bytes) \div 256)>> \o bytes

\* the encoder writes a block that is not the last one each time it holds
\* StoredBlockMax bytes; the last block has what is left, nothing at all
\* when the input is a multiple of StoredBlockMax
StoredBlockMax == 31745

RECURSIVE deflate_stored(_)
deflate_stored(bytes) ==
    IF Len(bytes) < StoredBlockMax THEN stored_block(1, bytes)
    ELSE stored_block(0, Take(bytes, StoredBlockMax))
            \o deflate_stored(Drop(bytes, StoredBlockMax))

\* DEFLATE at the levels 1 to 9, for an input in which the encoder finds no
\* match: one final block with the fixed Huffman codes (RFC 1951, 3.2.6),
\* the literals followed by the end-of-block code.  The codes go into the
\* bytes from the lowest bit on, each code with its highest bit first.
code_bits(v, n) == [i \in 1..n |-> (v \div (2 ^ (n - i))) % 2]
fixed_code(b) == IF b < 144 THEN code_bits(48 + b, 8) ELSE code_bits(256 + b, 9)

RECURSIVE literal_bits(_)
literal_bits(bytes) ==
    IF bytes = <<>> THEN <<>> ELSE fixed_code(Head(bytes)) \o literal_bits(Tail(bytes))

bit_at(bits, i) == IF i <= Len(bits) THEN bits[i] ELSE 0
pack_bits(bits) ==
    [j \in 1..((Len(bits) + 7) \div 8) |->
        bit_at(bits, 8 * j - 7) + 2 * bit_at(bits, 8 * j - 6) + 4 * bit_at(bits, 8 * j - 5)
            + 8 * bit_at(bits, 8 * j - 4) + 16 * bit_at(bits, 8 * j - 3)
            + 32 * bit_at(bits, 8 * j - 2) + 64 * bit_at(bits, 8 * j - 1)
            + 128 * bit_at(bits, 8 * j)]

deflate_fixed(bytes) ==
    pack_bits(<<1, 1, 0>> \o literal_bits(bytes) \o <<0, 0, 0, 0, 0, 0, 0>>)

\* the inputs of which every byte is coded as a literal with the fixed
\* codes: the encoder makes a match of three bytes or more with earlier
\* bytes of the input, and for an input of up to 32 bytes it keeps the
\* fixed codes whatever the size they give (above, it turns to a stored
\* block when the codes do not make the input shorter, and from 48 bytes
\* on to codes of its own)
literals_only(bytes) ==
    /\ Len(bytes) <= 32
    /\ \A i, j \in 1..(Len(bytes) - 2) : i < j => SubSeq(bytes, i, i + 2) # SubSeq(bytes, j, j + 2)

\* the bytes at the head of the input that are the same byte
run_length(bytes) ==
    CHOOSE k \in 0..Len(bytes) :
        /\ \A i \in 1..k : bytes[i] = bytes[1]
        /\ k = Len(bytes) \/ bytes[k + 1] # bytes[1]

\* a match of 3 to 10 bytes at a distance of 1 to 4: the code of the
\* length, 7 bits, and the code of the distance, 5 bits, neither with
\* extra bits
match_bits(len, dist) == code_bits(len - 2, 7) \o code_bits(dist - 1, 5)

\* the inputs that are a run of 5 to 12 times one byte, then bytes that
\* differ from it and from each other.  The encoder finds no match at the
\* first byte of its input nor with it: the first two bytes of the run are
\* literals, the rest of the run is one match at the distance 1 (the
\* levels 4 to 9 look for a longer match at the next byte and find none),
\* the bytes after the run are literals.
run_then_literals(bytes) ==
    /\ Len(bytes) <= 32
    /\ bytes # <<>>
    /\ run_length(bytes) \in 5..12
    /\ \A i, j \in (run_length(bytes) + 1)..Len(bytes) : i < j => bytes[i] # bytes[j]
    /\ \A i \in (run_length(bytes) + 1)..Len(bytes) : bytes[i] # bytes[1]

deflate_fixed_run(bytes) ==
    pack_bits(<<1, 1, 0>> \o literal_bits(Take(bytes, 2))
                  \o match_bits(run_length(bytes) - 2, 1)
                  \o literal_bits(Drop(bytes, run_length(bytes)))
                  \o <<0, 0, 0, 0, 0, 0, 0>>)

\* LZ4: a frame.  The magic number; the descriptor (FLG: version 1 and
\* independent blocks, BD: blocks of up to 64 KiB, the checksum byte of the
\* two); one data block when bytes were written, its size in 4 bytes little
\* endian; the end mark.  An input of less than 13 bytes cannot get
\* shorter, and its block holds the bytes as they are: the highest bit of
\* the size says so.
lz4_frame(bytes) ==
    <<4, 34, 77, 24>> \o <<96, 64, 130>>
        \o (IF bytes = <<>> THEN <<>> ELSE <<Len(bytes), 0, 0, 128>> \o bytes)
        \o <<0, 0, 0, 0>>

\* the bytes of a finished encoder.  The inputs for which the output of the
\* encoders is known: up to 65535 bytes at level 0, up to 32 bytes without
\* a match at the levels 1 to 9 or with one run at their head at the
\* levels 4 to 9, less than 13 bytes for LZ4.
encoded(compression, bytes) ==
    CASE compression.kind = "Deflate" /\ compression.level = 0 /\ Len(bytes) <= U16Max ->
             deflate_stored(bytes)
      [] compression.kind = "Deflate" /\ compression.level \in 1..9 /\ literals_only(bytes) ->
             deflate_fixed(bytes)
      [] compression.kind = "Deflate" /\ compression.level \in 4..9 /\ run_then_literals(bytes) ->
             deflate_fixed_run(bytes)
      [] compression.kind = "Lz4" /\ Len(bytes) < 13 -> lz4_frame(bytes)

\* Writer::into_stream: the encoder is finished; w.pending holds the bytes
\* written to the encoder of the active block
into_stream(w) ==
    IF w.state # "Active" \/ w.compression.kind = "None" THEN w
    ELSE [w EXCEPT !.pending = <<>>,
                   !.stream = write_all(w.stream, encoded(w.compression, w.pending))]

\* DataBlocksWriter::new
DataBlocksWriter_with(stream, compression) ==
    [state |-> "Wait", stream |-> stream, block_id |-> 0, offset |-> 0,
     compression |-> compression, pending |-> <<>>]

\* DataBlocksWriter::new as dump_pages calls it: no compression
DataBlocksWriter_new(stream) == DataBlocksWriter_with(stream, BlockCompression_None)

\* close_current, the patch of the length field: seek to block_id + 1, write
\* the length, seek back
patch_length(stream, block_id, len) ==
    [stream EXCEPT !.buf = write_all(Cursor(stream.buf, block_id + 1),
                                     to_be_bytes_u32_wide(stream_hi(stream), len)).buf]

\* a faulty variant of close_block: the length is written without the
\* conversion to u32
close_block_unchecked(w, block_id, len, bld) ==
    IF block_id = U64Max /\ bld = "debug"
    THEN [res |-> "Panic", w |-> [w EXCEPT !.state = "Invalid"]]
    ELSE IF len = 0 /\ stream_hi(w.stream) = 0 THEN [res |-> "Ok", w |-> [w EXCEPT !.state = "Wait"]]
    ELSE [res |-> "Ok",
          w |-> [w EXCEPT !.state = "Wait",
                          !.stream = patch_length(w.stream, block_id, len)]]

\* close_current once block_id is known; len is
\* current_position - (block_id + 1 + 4)
close_block(w, block_id, len, bld) ==
    IF block_id = U64Max /\ bld = "debug"
    THEN [res |-> "Panic", w |-> [w EXCEPT !.state = "Invalid"]]
    ELSE IF len = 0 /\ stream_hi(w.stream) = 0
    THEN [res |-> "Ok", w |-> [w EXCEPT !.state = "Wait"]]
    ELSE IF ~fits_u32_wide(stream_hi(w.stream), len)
    THEN [res |-> "Err", w |-> [w EXCEPT !.state = "Invalid"]]
    ELSE [res |-> "Ok",
          w |-> [w EXCEPT !.state = "Wait",
                          !.stream = patch_length(w.stream, block_id, len)]]

\* DataBlocksWriter::close_current: [res, w].  In the Wait state block_id
\* is !0, so `block_id + 1 + 4` overflows: a panic with overflow checks, and
\* 4 without them.
close_current(w, bld) ==
    IF w.state = "Invalid" THEN [res |-> "Panic", w |-> w]
    ELSE IF w.state = "Wait"
         THEN close_block(w, U64Max, w.stream.pos - (U64Max + 1 + 4), bld)
    ELSE close_block(into_stream(w), w.block_id,
                     into_stream(w).stream.pos - (w.block_id + 1 + 4), bld)

\* fragment, the offset of the active block, 0 when there is none
current_offset(w) == IF w.state = "Active" THEN w.offset ELSE 0

\* a + b exceeds u64::MAX, for a small a: b is then a residue below zero
sum_overflows(a, b) == b < 0 /\ a + b >= 0

\* a > b between u64 values, for a small b: a residue below zero is a
\* value above 2^63
gt_u64(a, b) == a < 0 \/ a > b

\* fragment, the condition under which the current block is closed; the
\* sum is a wrapped u64 sum
must_close(w, size_hint) ==
    \/ size_hint = U64Max
    \/ /\ gt_u64(current_offset(w) + size_hint, MAX_DATA_BLOCK_SIZE)
       /\ current_offset(w) > 0

\* fragment, the change to the Active state: the block header is written
open_block(w) ==
    IF w.state = "Wait"
    THEN [state |-> "Active",
          stream |-> write_all(w.stream,
                               <<BlockCompression_tag(w.compression), 0, 0, 0, 0>>),
          block_id |-> w.stream.pos,
          offset |-> 0,
          compression |-> w.compression,
          pending |-> <<>>]
    ELSE w

\* fragment, the Fragment made from the Active state
make_fragment(w) ==
    IF w.state # "Active" THEN [res |-> "Panic", w |-> w, block_id |-> 0, offset |-> 0]
    ELSE [res |-> "Ok", w |-> w, block_id |-> w.block_id, offset |-> w.offset]

fragment_after_close(c) ==
    IF c.res # "Ok" THEN [res |-> c.res, w |-> c.w, block_id |-> 0, offset |-> 0]
    ELSE make_fragment(open_block(c.w))

\* DataBlocksWriter::fragment: [res, w, block_id, offset]
\* With overflow checks `current_offset + size_hint` panics when it
\* overflows.
fragment(w, size_hint, bld) ==
    IF size_hint # U64Max /\ bld = "debug" /\ sum_overflows(current_offset(w), size_hint)
    THEN [res |-> "Panic", w |-> w, block_id |-> 0, offset |-> 0]
    ELSE fragment_after_close(IF must_close(w, size_hint) THEN close_current(w, bld)
                              ELSE [res |-> "Ok", w |-> w])

\* a faulty variant of Fragment_write: the offset of the block stays
Fragment_write_unadvanced(w, bytes) ==
    IF w.compression.kind = "None"
    THEN [w EXCEPT !.stream = write_all(w.stream, bytes)]
    ELSE [w EXCEPT !.pending = w.pending \o bytes]

\* Write for Fragment: the bytes go to the block's stream, or to its
\* encoder, and the offset advances
Fragment_write(w, bytes) ==
    IF w.compression.kind = "None"
    THEN [w EXCEPT !.stream = write_all(w.stream, bytes), !.offset = w.offset + Len(bytes)]
    ELSE [w EXCEPT !.pending = w.pending \o bytes, !.offset = w.offset + Len(bytes)]

finish_after_close(c) ==
    IF c.res # "Ok" THEN [res |-> c.res, stream |-> c.w.stream]
    ELSE IF c.w.state # "Wait" THEN [res |-> "Panic", stream |-> c.w.stream]
    ELSE [res |-> "Ok", stream |-> c.w.stream]

\* DataBlocksWriter::finish: [res, stream]
finish(w, bld) == finish_after_close(close_current(w, bld))


-----------------------------------------------------------------------------
(* page::persistence: the page index entry and dump_pages.                 *)

IndexEntry(id, parent_id, mb, mo, cb, co) ==
    [id |-> id, parent_id |-> parent_id,
     metadata_block_id |-> mb, metadata_block_offset |-> mo,
     content_block_id |-> cb, content_block_offset |-> co]

\* IndexEntry::write (six big-endian u32) and IndexEntry::read
IndexEntry_write(e) ==
    to_be_bytes_u32(e.id) \o to_be_bytes_u32(e.parent_id)
        \o to_be_bytes_u32(e.metadata_block_id) \o to_be_bytes_u32(e.metadata_block_offset)
        \o to_be_bytes_u32(e.content_block_id) \o to_be_bytes_u32(e.content_block_offset)

IndexEntry_read(b) ==
    IndexEntry(from_be_bytes_u32(SubSeq(b, 1, 4)), from_be_bytes_u32(SubSeq(b, 5, 8)),
               from_be_bytes_u32(SubSeq(b, 9, 12)), from_be_bytes_u32(SubSeq(b, 13, 16)),
               from_be_bytes_u32(SubSeq(b, 17, 20)), from_be_bytes_u32(SubSeq(b, 21, 24)))

\* the (tag, value) pairs dump_pages serializes for a page
page_metadata_pairs(page) ==
    <<<<1, page.title>>>>
        \o (IF page.keywords.some THEN <<<<2, page.keywords.v>>>> ELSE <<>>)
        \o (IF page.description.some THEN <<<<3, page.description.v>>>> ELSE <<>>)

\* dump_pages, the body of the loop for one page once its fragment f is made:
\* the content is written to the fragment, the metadata to metadata_buf, and
\* the index entry is pushed
dump_page(st, page, f) ==
    IF f.res # "Ok" THEN [st EXCEPT !.res = f.res, !.w = f.w]
    ELSE IF ~fits_u32(f.block_id) \/ ~fits_u32(f.offset) \/ ~fits_u32(Len(st.metadata_buf))
    THEN [st EXCEPT !.res = "Err",
                    !.w = Fragment_write(Fragment_write(f.w, leb128_write(Len(page.content))),
                                         page.content)]
    ELSE [res |-> "Ok",
          w |-> Fragment_write(Fragment_write(f.w, leb128_write(Len(page.content))),
                               page.content),
          metadata_buf |-> st.metadata_buf \o kvlist_serialize(page_metadata_pairs(page)),
          page_index |-> Append(st.page_index,
                                IndexEntry(page.id, page.parent_id, U32Max,
                                           Len(st.metadata_buf), f.block_id, f.offset))]

\* the loop of dump_pages over the pages: [res, w, metadata_buf, page_index]
RECURSIVE dump_pages_loop(_, _, _)
dump_pages_loop(st, pages, bld) ==
    IF pages = <<>> \/ st.res # "Ok" THEN st
    ELSE dump_pages_loop(dump_page(st, Head(pages),
                                   fragment(st.w, Len(Head(pages).content), bld)),
                         Tail(pages), bld)

RECURSIVE index_bytes(_, _)
index_bytes(page_index, metadata_block_id) ==
    IF page_index = <<>> THEN <<>>
    ELSE IndexEntry_write([Head(page_index) EXCEPT !.metadata_block_id = metadata_block_id])
            \o index_bytes(Tail(page_index), metadata_block_id)

\* dump_pages, the page index written after the blocks are finished
write_index(page_index, metadata_block_id, fin) ==
    IF fin.res # "Ok" THEN [res |-> fin.res, pos |-> 0, out |-> fin.stream]
    ELSE [res |-> "Ok", pos |-> fin.stream.pos,
          out |-> write_all(fin.stream, index_bytes(page_index, metadata_block_id))]

\* dump_pages, the metadata block: fm is the fragment made with u64::MAX
dump_metadata_block(st, fm, bld) ==
    IF fm.res # "Ok" THEN [res |-> fm.res, pos |-> 0, out |-> fm.w.stream]
    ELSE IF ~fits_u32(fm.block_id)
    THEN [res |-> "Err", pos |-> 0, out |-> Fragment_write(fm.w, st.metadata_buf).stream]
    ELSE write_index(st.page_index, fm.block_id,
                     finish(Fragment_write(fm.w, st.metadata_buf), bld))

dump_pages_end(st, bld) ==
    IF st.res # "Ok" THEN [res |-> st.res, pos |-> 0, out |-> st.w.stream]
    ELSE dump_metadata_block(st, fragment(st.w, U64Max, bld), bld)

\* dump_pages: [res, pos, out]; pos is the position of the page index
dump_pages(output, pages, bld) ==
    dump_pages_end(dump_pages_loop([res |-> "Ok", w |-> DataBlocksWriter_new(output),
                                    metadata_buf |-> <<>>, page_index |-> <<>>],
                                   pages, bld),
                   bld)

-----------------------------------------------------------------------------
(* persistence::v1: the header, dump.                                      *)

Header(num_pages, metadata_pos, pages_pos, fts_pos) ==
    [num_pages |-> num_pages, metadata_pos |-> metadata_pos,
     pages_pos |-> pages_pos, fts_pos |-> fts_pos]

Header_write(h) ==
    to_be_bytes_u32(h.num_pages) \o to_be_bytes_u32(h.metadata_pos)
        \o to_be_bytes_u32(h.pages_pos) \o to_be_bytes_u32(h.fts_pos)

Header_read(b) ==
    Header(from_be_bytes_u32(SubSeq(b, 1, 4)), from_be_bytes_u32(SubSeq(b, 5, 8)),
           from_be_bytes_u32(SubSeq(b, 9, 12)), from_be_bytes_u32(SubSeq(b, 13, 16)))

\* v1::dump, the header rewritten with the positions relative to `beginning`
v1_dump_header(bk, start, metadata_pos, dp) ==
    IF dp.res # "Ok" THEN [res |-> dp.res, out |-> dp.out]
    ELSE [res |-> "Ok",
          out |-> write_all(seek(dp.out, start + Len(MAGIC)),
                            Header_write(Header(Len(bk.pages), metadata_pos,
                                                dp.pos - start, U32Max)))]

\* v1::dump, after the magic and the placeholder header (o2): the metadata,
\* then the pages
v1_dump_body(bk, start, o2, bld) ==
    v1_dump_header(bk, start, o2.pos - start,
                   dump_pages(metadata_dump(o2, bk.metadata), bk.pages, bld))

\* v1::dump: [res, out]
v1_dump(output, bk, bld) ==
    v1_dump_body(bk, output.pos,
                 write_all(write_all(output, MAGIC),
                           Header_write(Header(Len(bk.pages), U32Max, U32Max, U32Max))),
                 bld)


-----------------------------------------------------------------------------
(* persistence::datablock::reader                                          *)

\* DataBlocksReader::new: the stream length is taken by seeking to the end.
\* The cache is an LRU list, most recently used first, of [key, val]: val
\* is the Result of the closure, [ok, data, err].
DataBlocksReader_new(stream) ==
    [stream |-> seek(stream, Len(stream.buf)), stream_len |-> Len(stream.buf),
     cache |-> <<>>]

CacheResult(ok, data, err) == [ok |-> ok, data |-> data, err |-> err]

read_fail(e, st) == [val |-> CacheResult(FALSE, <<>>, e), stream |-> st]

\* the arm of `match block_type` for an Uncompressed block: the data are
\* the bytes of the block
read_block_data(s2, len) ==
    IF ~can_read(s2, len) THEN read_fail("UnexpectedEof", advance(s2, len))
    ELSE [val |-> CacheResult(TRUE, read_bytes(s2, len), "-"), stream |-> advance(s2, len)]

\* The decoders, the inverses of the encoders on what the encoders above
\* write: [ok, data].
bits_of(bytes) ==
    [i \in 1..(8 * Len(bytes)) |-> (bytes[((i - 1) \div 8) + 1] \div (2 ^ ((i - 1) % 8))) % 2]

RECURSIVE msb_value(_, _, _)
msb_value(bits, i, n) ==
    IF n = 0 THEN 0 ELSE 2 * msb_value(bits, i, n - 1) + bits[i + n - 1]

NotDecoded == [ok |-> FALSE, data |-> <<>>]

\* the bytes decoded with len more of them, copied from dist bytes back
copy_match(acc, len, dist) ==
    acc \o [i \in 1..len |-> acc[Len(acc) - dist + ((i - 1) % dist) + 1]]

\* the bytes of a block with the fixed codes, from the bit i on, up to the
\* end-of-block code: literals, and matches of 3 to 10 bytes at a distance
\* of 1 to 4
RECURSIVE fixed_literals(_, _, _)
fixed_literals(bits, i, acc) ==
    IF i + 6 > Len(bits) THEN NotDecoded
    ELSE IF msb_value(bits, i, 7) = 0 THEN [ok |-> TRUE, data |-> acc]
    ELSE IF msb_value(bits, i, 7) \in 1..8
    THEN IF i + 11 > Len(bits) \/ msb_value(bits, i + 7, 5) + 1 > Len(acc)
            \/ msb_value(bits, i + 7, 5) > 3 THEN NotDecoded
         ELSE fixed_literals(bits, i + 12,
                             copy_match(acc, msb_value(bits, i, 7) + 2,
                                        msb_value(bits, i + 7, 5) + 1))
    ELSE IF msb_value(bits, i, 7) < 24 \/ i + 7 > Len(bits) THEN NotDecoded
    ELSE IF msb_value(bits, i, 8) \in 48..191
    THEN fixed_literals(bits, i + 8, Append(acc, msb_value(bits, i, 8) - 48))
    ELSE IF msb_value(bits, i, 8) \in 192..199 \/ i + 8 > Len(bits) THEN NotDecoded
    ELSE fixed_literals(bits, i + 9, Append(acc, msb_value(bits, i, 9) - 256))

inflate_fixed(stored, d) ==
    IF d.ok /\ (\/ stored = deflate_fixed(d.data)
                \/ run_then_literals(d.data) /\ stored = deflate_fixed_run(d.data))
    THEN d ELSE NotDecoded

\* the bytes held by stored blocks, up to the last block
RECURSIVE stored_data(_, _)
stored_data(stored, acc) ==
    IF Len(stored) < 5 \/ stored[1] \notin {0, 1}
          \/ Len(stored) < 5 + stored[2] + 256 * stored[3] THEN NotDecoded
    ELSE IF stored[1] = 1
    THEN [ok |-> TRUE, data |-> acc \o SubSeq(stored, 6, 5 + stored[2] + 256 * stored[3])]
    ELSE stored_data(Drop(stored, 5 + stored[2] + 256 * stored[3]),
                     acc \o SubSeq(stored, 6, 5 + stored[2] + 256 * stored[3]))

inflate_stored(stored, d) ==
    IF d.ok /\ stored = deflate_stored(d.data) THEN d ELSE NotDecoded

inflate(stored) ==
    IF stored # <<>> /\ stored[1] \in {0, 1}
    THEN inflate_stored(stored, stored_data(stored, <<>>))
    ELSE IF stored # <<>> /\ stored[1] % 8 = 3
    THEN inflate_fixed(stored, fixed_literals(bits_of(stored), 4, <<>>))
    ELSE NotDecoded

lz4_read(stored) ==
    IF stored = lz4_frame(<<>>) THEN [ok |-> TRUE, data |-> <<>>]
    ELSE IF Len(stored) > 15 /\ stored = lz4_frame(SubSeq(stored, 12, Len(stored) - 4))
    THEN [ok |-> TRUE, data |-> SubSeq(stored, 12, Len(stored) - 4)]
    ELSE NotDecoded

\* a compressed block once its stored bytes are decoded (d): the data of
\* the block are the decoded bytes
decoded_block(d, s3) ==
    IF ~d.ok THEN read_fail("DecodeError", s3)
    ELSE [val |-> CacheResult(TRUE, d.data, "-"), stream |-> s3]

\* the arm of `match block_type` for a Deflate or Lz4 block: the stored
\* bytes are read and decoded
read_compressed_block(s2, tag, len) ==
    IF ~can_read(s2, len) THEN read_fail("UnexpectedEof", advance(s2, len))
    ELSE decoded_block(IF tag = 2 THEN inflate(read_bytes(s2, len))
                       ELSE lz4_read(read_bytes(s2, len)),
                       advance(s2, len))

\* the closure given to get_or_insert, from the block length on; s2 is the
\* stream after the tag and the length.  The offset and the end of the
\* block are checked against the length field, for every block type,
\* before the data are read.
read_block_checked(s2, stream_len, block_id, offset, tag, len) ==
    IF len >= 0 /\ offset > len THEN read_fail("OffsetBeyondBlock", s2)
    ELSE IF len < 0 \/ block_id + len > stream_len THEN read_fail("BlockBeyondInput", s2)
    ELSE IF tag = Uncompressed THEN read_block_data(s2, len)
    ELSE read_compressed_block(s2, tag, len)

\* the closure given to get_or_insert, after the seek to block_id (s0)
read_block_at(s0, stream_len, block_id, offset) ==
    IF block_id < 0 \/ ~can_read(s0, 1) THEN read_fail("UnexpectedEof", advance(s0, 1))
    ELSE IF s0.buf[s0.pos + 1] \notin {BlockCompression_tag(c) : c \in {BlockCompression_None, Deflate(0), Lz4}}
    THEN read_fail("InvalidBlockType", advance(s0, 1))
    ELSE IF ~can_read(advance(s0, 1), 4) THEN read_fail("UnexpectedEof", advance(s0, 5))
    ELSE read_block_checked(advance(s0, 5), stream_len, block_id, offset,
                            s0.buf[s0.pos + 1],
                            from_be_bytes_u32(read_bytes(advance(s0, 1), 4)))

\* the closure given to get_or_insert: [val, stream]
read_block(stream, stream_len, block_id, offset) ==
    read_block_at(seek(stream, block_id), stream_len, block_id, offset)

CacheIndex(cache, key) ==
    IF \E i \in 1..Len(cache) : cache[i].key = key
    THEN CHOOSE i \in 1..Len(cache) : cache[i].key = key ELSE 0

RemoveAt(q, i) == Take(q, i - 1) \o Drop(q, i)

\* LruCache::get_or_insert, the entries kept behind the one just used
lru_kept(cache, i) ==
    IF i > 0 THEN RemoveAt(cache, i)
    ELSE IF Len(cache) >= LRU_CACHE_SIZE THEN Take(cache, LRU_CACHE_SIZE - 1)
    ELSE cache

\* with_block, the Result mapped through the visitor: the slice
\* data[offset..] is taken without any check
with_block_result(val, offset, r1) ==
    IF ~val.ok THEN [res |-> val.err, data |-> <<>>, r |-> r1]
    ELSE IF offset > Len(val.data) THEN [res |-> "Panic", data |-> <<>>, r |-> r1]
    ELSE [res |-> "Ok", data |-> Drop(val.data, offset), r |-> r1]

\* with_block on a cached block, were a hit not to count as a use
with_block_hit_unpromoted(r, block_id, offset, i) ==
    with_block_result(r.cache[i].val, offset, r)

with_block_hit(r, block_id, offset, i) ==
    with_block_result(r.cache[i].val, offset,
        [r EXCEPT !.cache = <<[key |-> block_id, val |-> r.cache[i].val]>>
                                \o lru_kept(r.cache, i)])

with_block_miss(r, block_id, offset, rb) ==
    with_block_result(rb.val, offset,
        [r EXCEPT !.cache = <<[key |-> block_id, val |-> rb.val]>> \o lru_kept(r.cache, 0),
                  !.stream = rb.stream])

\* DataBlocksReader::with_block: [res, data, r]; data is the slice handed
\* to the visitor
with_block(r, block_id, offset) ==
    IF CacheIndex(r.cache, block_id) > 0
    THEN with_block_hit(r, block_id, offset, CacheIndex(r.cache, block_id))
    ELSE with_block_miss(r, block_id, offset,
                         read_block(r.stream, r.stream_len, block_id, offset))

-----------------------------------------------------------------------------
(* persistence::kvlist: the deserializer over the page tags.               *)

StreamParser(input, input_len) ==
    [input |-> input, input_len |-> input_len, io_valid |-> TRUE]

parser_item(item, tag, bytes, p, st) ==
    [item |-> item, tag |-> tag, bytes |-> bytes, p |-> [p EXCEPT !.input = st]]

parser_stop(item, p, st) ==
    [item |-> item, tag |-> 0, bytes |-> <<>>,
     p |-> [p EXCEPT !.input = st, !.io_valid = FALSE]]

\* StreamParser::next, after the length is read (lv): the value
StreamParser_value(p, tag, lv) ==
    IF lv.res # "Ok" THEN parser_stop("Leb128Error", p, lv.s)
    ELSE IF lv.val < 0 \/ lv.val > p.input_len
    THEN parser_item("InvalidLength", 0, <<>>, p, lv.s)
    ELSE IF ~can_read(lv.s, lv.val) THEN parser_stop("IoError", p, advance(lv.s, lv.val))
    ELSE IF ~valid_utf8(read_bytes(lv.s, lv.val))
    THEN parser_item("ParserError", tag, read_bytes(lv.s, lv.val), p, advance(lv.s, lv.val))
    ELSE parser_item("Ok", tag, read_bytes(lv.s, lv.val), p, advance(lv.s, lv.val))

\* StreamParser::next: [item, tag, bytes, p]; item is "None", "Ok" or the
\* error of the item
StreamParser_next(p) ==
    IF ~p.io_valid THEN [item |-> "None", tag |-> 0, bytes |-> <<>>, p |-> p]
    ELSE IF ~can_read(p.input, 1) THEN parser_stop("IoError", p, advance(p.input, 1))
    ELSE IF p.input.buf[p.input.pos + 1] = 0
    THEN parser_item("None", 0, <<>>, p, advance(p.input, 1))
    ELSE IF p.input.buf[p.input.pos + 1] \notin PageTags
    THEN parser_stop("InvalidByteTag", p, advance(p.input, 1))
    ELSE StreamParser_value(p, p.input.buf[p.input.pos + 1],
                            leb128_read(advance(p.input, 1)))


-----------------------------------------------------------------------------
(* page::persistence::build_page                                           *)

\* the visitor of the content block, after the length is read (lv).
\* `len + position` is a usize sum: when it overflows the visitor panics
\* with overflow checks, and without them the sum wraps to an end below
\* position, for which get() gives None and the visitor InvalidLength.
\* "AddOverflow" stands for that outcome, which is that of the build.
content_slice(bytes, content_block_offset, lv) ==
    IF lv.res # "Ok" THEN [res |-> "Leb128Error", content |-> <<>>]
    ELSE IF lv.val < 0 /\ lv.val + lv.s.pos + content_block_offset >= 0
    THEN [res |-> "AddOverflow", content |-> <<>>]
    ELSE IF lv.val < 0 \/ lv.val + lv.s.pos + content_block_offset > Len(bytes)
    THEN [res |-> "InvalidLength", content |-> <<>>]
    ELSE IF ~valid_utf8(SubSeq(bytes, lv.s.pos + content_block_offset + 1,
                               lv.val + lv.s.pos + content_block_offset))
    THEN [res |-> "UnicodeError", content |-> <<>>]
    ELSE [res |-> "Ok",
          content |-> SubSeq(bytes, lv.s.pos + content_block_offset + 1,
                             lv.val + lv.s.pos + content_block_offset)]

\* the visitor of the content block
content_visitor(bytes, content_block_offset) ==
    IF content_block_offset < 0 \/ content_block_offset > Len(bytes)
    THEN [res |-> "InvalidLength", content |-> <<>>]
    ELSE content_slice(bytes, content_block_offset,
                       leb128_read(Cursor(Drop(bytes, content_block_offset), 0)))

\* the match on the tag in the metadata visitor
metadata_set(acc, tag, value) ==
    CASE tag = 1 -> [acc EXCEPT !.title = Some(value)]
      [] tag = 2 -> [acc EXCEPT !.keywords = Some(value)]
      [] OTHER -> [acc EXCEPT !.description = Some(value)]

\* the loop of the metadata visitor over the KV-list items
RECURSIVE metadata_visitor_loop(_, _)
metadata_visitor_item(n, acc) ==
    IF n.item = "None" THEN acc
    ELSE IF n.item # "Ok" THEN [acc EXCEPT !.res = "InvalidMetadata"]
    ELSE metadata_visitor_loop(n.p, metadata_set(acc, n.tag, n.bytes))

metadata_visitor_loop(p, acc) == metadata_visitor_item(StreamParser_next(p), acc)

metadata_visitor(bytes, metadata_block_offset) ==
    IF metadata_block_offset < 0 \/ metadata_block_offset > Len(bytes)
    THEN [res |-> "InvalidLength", title |-> None, keywords |-> None, description |-> None]
    ELSE metadata_visitor_loop(
            StreamParser(Cursor(Drop(bytes, metadata_block_offset), 0),
                         Len(bytes) - metadata_block_offset),
            [res |-> "Ok", title |-> None, keywords |-> None, description |-> None])

NoPage == Page(0, 0, <<>>, None, None, <<>>)

build_fail(e, r) == [res |-> e, page |-> NoPage, r |-> r]

\* build_page, the final page
build_page_final(entry, content, mv, r) ==
    IF mv.res # "Ok" THEN build_fail(mv.res, r)
    ELSE IF entry.id = 0 THEN build_fail("InvalidId", r)
    ELSE [res |-> "Ok",
          page |-> Page(entry.id, entry.parent_id,
                        IF mv.title.some THEN mv.title.v ELSE <<>>,
                        mv.keywords, mv.description, content),
          r |-> r]

\* build_page, the page metadata: mb is the metadata block
build_page_metadata(entry, content, mb) ==
    IF mb.res = "Panic" THEN build_fail("Panic", mb.r)
    ELSE IF mb.res # "Ok" THEN build_fail("Io", mb.r)
    ELSE build_page_final(entry, content,
                          metadata_visitor(mb.data, entry.metadata_block_offset), mb.r)

\* build_page, after the content visitor (cv)
build_page_content(entry, cv, r) ==
    IF cv.res # "Ok" THEN build_fail(cv.res, r)
    ELSE build_page_metadata(entry, cv.content, with_block(r, entry.metadata_block_id, 0))

\* build_page, the page content: cb is the content block
build_page_block(entry, cb) ==
    IF cb.res = "Panic" THEN build_fail("Panic", cb.r)
    ELSE IF cb.res # "Ok" THEN build_fail("Io", cb.r)
    ELSE build_page_content(entry, content_visitor(cb.data, entry.content_block_offset),
                            cb.r)

\* build_page: [res, page, r].  Each visitor receives the whole decoded
\* block and applies the entry's offset itself.
build_page(entry, r) == build_page_block(entry, with_block(r, entry.content_block_id, 0))


-----------------------------------------------------------------------------
(* page::Index                                                             *)

\* sorted sequence of a finite set of integers (BTreeMap key order)
Min(S) == CHOOSE x \in S : \A y \in S : x <= y

\* the order of u32 values held as residues: a negative residue stands for
\* a value of 2^31 or more, above every value that is not negative
lt_u32(a, b) == IF (a < 0) = (b < 0) THEN a < b ELSE b < 0
min_u32(S) == CHOOSE x \in S : \A y \in S : x = y \/ lt_u32(x, y)

\* the keys of a BTreeMap<PageId, _> in the order of Ord for PageId (u32)
RECURSIVE SortedSeq(_)
SortedSeq(S) == IF S = {} THEN <<>> ELSE <<min_u32(S)>> \o SortedSeq(S \ {min_u32(S)})

\* BTreeMap::insert: the map is a function on its keys
btree_insert(entries, ie) ==
    [k \in DOMAIN entries \cup {ie.id} |-> IF k = ie.id THEN ie ELSE entries[k]]

\* the loop of Index::new: [res, id, entries, read, input]; entries is the
\* BTreeMap, read counts the entries read
RECURSIVE Index_new_loop(_, _)
\* a faulty variant of Index_new_entry: the id 0 is not refused
Index_new_entry_unchecked(st, remaining, ie, after) ==
    IF ie.id \in DOMAIN st.entries
    THEN [st EXCEPT !.res = "DuplicatedId", !.id = ie.id,
                    !.entries = btree_insert(st.entries, ie),
                    !.read = st.read + 1, !.input = after]
    ELSE Index_new_loop([st EXCEPT !.entries = btree_insert(st.entries, ie),
                                   !.read = st.read + 1, !.input = after],
                        remaining - 1)

Index_new_entry(st, remaining, ie, after) ==
    IF ie.id = 0
    THEN [st EXCEPT !.res = "InvalidId", !.id = ie.id, !.read = st.read + 1,
                    !.input = after]
    ELSE IF ie.id \in DOMAIN st.entries
    THEN [st EXCEPT !.res = "DuplicatedId", !.id = ie.id,
                    !.entries = btree_insert(st.entries, ie),
                    !.read = st.read + 1, !.input = after]
    ELSE Index_new_loop([st EXCEPT !.entries = btree_insert(st.entries, ie),
                                   !.read = st.read + 1, !.input = after],
                        remaining - 1)

Index_new_loop(st, remaining) ==
    IF remaining = 0 \/ st.res # "Ok" THEN st
    ELSE IF ~can_read(st.input, 24)
    THEN [st EXCEPT !.res = "Io", !.input = advance(st.input, 24)]
    ELSE Index_new_entry(st, remaining, IndexEntry_read(read_bytes(st.input, 24)),
                         advance(st.input, 24))

\* Index::new
Index_new(input, num_pages, position) ==
    Index_new_loop([res |-> "Ok", id |-> 0, entries |-> <<>>, read |-> 0,
                    input |-> seek(input, position)], num_pages)

\* the loop of Index::pages_iter, collected: a sequence of [res, page],
\* and the reader as the iteration leaves it
RECURSIVE pages_iter_loop(_, _, _, _)
pages_iter_item(entries, keys, acc, b) ==
    pages_iter_loop(entries, Tail(keys), b.r, Append(acc, [res |-> b.res, page |-> b.page]))

pages_iter_loop(entries, keys, r, acc) ==
    IF keys = <<>> THEN [items |-> acc, r |-> r]
    ELSE pages_iter_item(entries, keys, acc, build_page(entries[Head(keys)], r))

\* a faulty variant of btree_keys: the keys in descending order
btree_keys_descending(entries) == Reverse(SortedSeq(DOMAIN entries))

\* BTreeMap::values: the keys in ascending order
btree_keys(entries) == SortedSeq(DOMAIN entries)

\* Index::pages_iter: the values of the BTreeMap in key order
pages_iter(entries, r) == pages_iter_loop(entries, btree_keys(entries), r, <<>>)

\* a faulty variant of get_by_id: an unknown id yields the first page
get_by_id_lenient(entries, r, page_id) ==
    IF entries = <<>> THEN [res |-> "InvalidId", page |-> NoPage, r |-> r]
    ELSE build_page(entries[IF page_id \in DOMAIN entries THEN page_id
                            ELSE Min(DOMAIN entries)], r)

\* Index::get_by_id: [res, page, r]
get_by_id(entries, r, page_id) ==
    IF page_id \notin DOMAIN entries
    THEN [res |-> "InvalidId", page |-> NoPage, r |-> r]
    ELSE build_page(entries[page_id], r)

-----------------------------------------------------------------------------
(* persistence::load and persistence::v1::load                             *)

\* The Result of load: the Book, or the error (res), the id it carries (arg)
\* and the number of index entries read before it (read)
NoBook(e) == [res |-> e, arg |-> 0, read |-> 0, num_pages |-> 0, metadata_pos |-> 0,
              page_index |-> <<>>, data_blocks |-> DataBlocksReader_new(Cursor(<<>>, 0))]

\* v1::load, the Book made once the index is read
v1_load_book(header, index) ==
    IF index.res # "Ok" THEN [NoBook(index.res) EXCEPT !.arg = index.id, !.read = index.read]
    ELSE [res |-> "Ok", arg |-> 0, read |-> index.read, num_pages |-> header.num_pages,
          metadata_pos |-> header.metadata_pos, page_index |-> index.entries,
          data_blocks |-> DataBlocksReader_new(index.input)]

\* v1::load, the index read at the header's pages_pos
v1_load_index(input, header) ==
    v1_load_book(header, Index_new(input, header.num_pages, header.pages_pos))

\* v1::load, the input being positioned after the magic
v1_load(input) ==
    IF ~can_read(input, 16) THEN NoBook("Io")
    ELSE v1_load_index(advance(input, 16), Header_read(read_bytes(input, 16)))

\* persistence::load: the magic is read at the current position of the input
persistence_load(input) ==
    IF ~can_read(input, MAGIC_SIZE) THEN NoBook("InvalidMagic")
    ELSE IF read_bytes(input, MAGIC_SIZE) # MAGIC THEN NoBook("InvalidMagic")
    ELSE v1_load(advance(input, MAGIC_SIZE))


-----------------------------------------------------------------------------
(* metadata::load and Book::metadata                                       *)

BinaryDataParser(input, input_len) ==
    [input |-> input, input_len |-> input_len, io_valid |-> TRUE]

\* the `next_value!` macro, after the length is read (lv): [res, bytes, s]
next_value_bytes(lv, input_len) ==
    IF lv.res # "Ok" THEN [res |-> "Leb128Error", bytes |-> <<>>, s |-> lv.s]
    ELSE IF lv.val < 0 \/ lv.val > input_len
    THEN [res |-> "InvalidLength", bytes |-> <<>>, s |-> lv.s]
    ELSE IF ~can_read(lv.s, lv.val)
    THEN [res |-> "IoError", bytes |-> <<>>, s |-> advance(lv.s, lv.val)]
    ELSE [res |-> "Ok", bytes |-> read_bytes(lv.s, lv.val), s |-> advance(lv.s, lv.val)]

\* the `next_value!` macro
next_value(s, input_len) == next_value_bytes(leb128_read(s), input_len)

from_utf8(v) ==
    IF v.res = "Ok" /\ ~valid_utf8(v.bytes) THEN [v EXCEPT !.res = "UnicodeError"] ELSE v

\* the `next_str!` macro
next_str(s, input_len) == from_utf8(next_value(s, input_len))

NoEntry == Entry("-", <<>>, <<>>, u64(0))

metadata_stop(item, p, st) ==
    [item |-> item, entry |-> NoEntry, p |-> [p EXCEPT !.input = st, !.io_valid = FALSE]]

metadata_item(item, e, p, st) ==
    [item |-> item, entry |-> e, p |-> [p EXCEPT !.input = st]]

\* BinaryDataParser::next, the second string of a User entry (v2)
BinaryDataParser_user(p, v1, v2) ==
    IF v2.res # "Ok" THEN metadata_stop(v2.res, p, v2.s)
    ELSE metadata_item("Ok", User(v1.bytes, v2.bytes), p, v2.s)

\* BinaryDataParser::next, the match on the key; v1 is the first value
BinaryDataParser_entry(p, key, v1) ==
    IF v1.res # "Ok" THEN metadata_stop(v1.res, p, v1.s)
    ELSE IF key = "Date"
    THEN IF Len(v1.bytes) # 8 THEN metadata_item("InvalidLength", NoEntry, p, v1.s)
         ELSE metadata_item("Ok", Date(from_be_bytes_u64(v1.bytes)), p, v1.s)
    ELSE IF key = "User" THEN BinaryDataParser_user(p, v1, next_str(v1.s, p.input_len))
    ELSE metadata_item("Ok", Entry(key, v1.bytes, <<>>, u64(0)), p, v1.s)

\* BinaryDataParser::next, after the byte-tag is converted (key); s1 is the
\* input after the tag
BinaryDataParser_key(p, key, s1) ==
    IF ~key.some THEN metadata_stop("InvalidByteTag", p, s1)
    ELSE BinaryDataParser_entry(p, key.v,
                                IF key.v = "Date" THEN next_value(s1, p.input_len)
                                ELSE next_str(s1, p.input_len))

\* BinaryDataParser::next: [item, entry, p]; item is "None", "Ok" or the
\* error of the item
BinaryDataParser_next(p) ==
    IF ~p.io_valid THEN [item |-> "None", entry |-> NoEntry, p |-> p]
    ELSE IF ~can_read(p.input, 1) THEN metadata_stop("IoError", p, advance(p.input, 1))
    ELSE IF p.input.buf[p.input.pos + 1] = 0
    THEN metadata_item("None", NoEntry, p, advance(p.input, 1))
    ELSE BinaryDataParser_key(p, ByteTag_try_from(p.input.buf[p.input.pos + 1]),
                              advance(p.input, 1))

\* the items of the iterator, collected until it returns None:
\* a sequence of [item, entry], and the input as the iteration leaves it
RECURSIVE collect_metadata(_, _)
collect_metadata_item(n, acc) ==
    IF n.item = "None" THEN [items |-> acc, input |-> n.p.input]
    ELSE collect_metadata(n.p, Append(acc, [item |-> n.item, entry |-> n.entry]))

collect_metadata(p, acc) == collect_metadata_item(BinaryDataParser_next(p), acc)

Book_metadata_items(bk, c) ==
    [items |-> c.items, data_blocks |-> [bk.data_blocks EXCEPT !.stream = c.input]]

\* a faulty variant of Book_metadata: the entries are read from where the
\* stream stands
Book_metadata_unseeked(bk) ==
    Book_metadata_items(bk,
        collect_metadata(BinaryDataParser(bk.data_blocks.stream, bk.data_blocks.stream_len),
                         <<>>))

\* Book::metadata, iterated to its end: [items, data_blocks]
Book_metadata(bk) ==
    Book_metadata_items(bk,
        collect_metadata(BinaryDataParser(seek(bk.data_blocks.stream, bk.metadata_pos),
                                          bk.data_blocks.stream_len),
                         <<>>))


-----------------------------------------------------------------------------
(* toc: BookToc::new                                                       *)

\* The tree is held flat: the set of its entries, each with the path of ids
\* from its root down to itself.  The children of an entry are the entries
\* whose path extends its own by one id.
TocEntry(id, title, section_number, path) ==
    [id |-> id, title |-> title, section_number |-> section_number, path |-> path]

\* IndexEntry::get_page_title: the first Title of the page's KV-list in the
\* metadata block, the empty string when there is none
RECURSIVE first_title(_)
first_title_item(n) ==
    IF n.item = "None" THEN [res |-> "Ok", title |-> <<>>]
    ELSE IF n.item # "Ok" THEN [res |-> "InvalidMetadata", title |-> <<>>]
    ELSE IF n.tag = 1 THEN [res |-> "Ok", title |-> n.bytes]
    ELSE first_title(n.p)

first_title(p) == first_title_item(StreamParser_next(p))

page_title_result(t, r) ==
    IF t.res # "Ok" THEN [res |-> "TitleError", title |-> <<>>, r |-> r]
    ELSE [res |-> "Ok", title |-> t.title, r |-> r]

page_title_in_block(entry, mb) ==
    IF mb.res # "Ok" THEN [res |-> "TitleError", title |-> <<>>, r |-> mb.r]
    ELSE IF entry.metadata_block_offset < 0 \/ entry.metadata_block_offset > Len(mb.data)
    THEN [res |-> "TitleError", title |-> <<>>, r |-> mb.r]
    ELSE page_title_result(
            first_title(StreamParser(Cursor(Drop(mb.data, entry.metadata_block_offset), 0),
                                     Len(mb.data) - entry.metadata_block_offset)),
            mb.r)

\* [res, title, r]
get_page_title(entry, r) ==
    page_title_in_block(entry, with_block(r, entry.metadata_block_id, 0))

\* HashMap::insert into `parents`: a function from page id to parent id,
\* 0 for no parent
parents_insert(parents, id, parent_id) ==
    [k \in DOMAIN parents \cup {id} |-> IF k = id THEN parent_id ELSE parents[k]]

\* the walk over `parents` that fills `path`: [res, path]; path holds the
\* filled slots, the parent first
RECURSIVE parent_walk(_, _, _)
parent_walk(parents, last_id, path) ==
    IF Len(path) = MAX_SUB_LEVEL THEN [res |-> "Ok", path |-> path]
    ELSE IF last_id \notin DOMAIN parents
    THEN [res |-> "InvalidParent", path |-> Append(path, last_id)]
    ELSE IF parents[last_id] = 0 THEN [res |-> "Ok", path |-> Append(path, last_id)]
    ELSE parent_walk(parents, parents[last_id], Append(path, last_id))

\* faulty variants of last_is_filled: the check is dropped, and the check is
\* made one slot early
last_is_filled_never(path) == FALSE
last_is_filled_early(path) == Len(path) >= MAX_SUB_LEVEL - 1

\* `path.last().map(|l| l.is_some()) == Some(true)`
last_is_filled(path) == Len(path) = MAX_SUB_LEVEL

\* the try_fold that descends the tree along the ids: the path of the
\* entry reached, or <<>> when an id is missing at its level
RECURSIVE descend(_, _, _)
descend(tree, ids, prefix) ==
    IF ids = <<>> THEN prefix
    ELSE IF \E e \in tree : e.path = Append(prefix, Head(ids))
    THEN descend(tree, Tail(ids), Append(prefix, Head(ids)))
    ELSE <<>>

Children(tree, path) ==
    {e \in tree : Len(e.path) = Len(path) + 1 /\ Take(e.path, Len(path)) = path}

EntryAt(tree, path) == CHOOSE e \in tree : e.path = path

\* a faulty variant of next_section: the sections are counted from 0
next_section_from_zero(tree, path) == Cardinality(Children(tree, path))

\* `tree.len() as u16 + 1` and `target.len() as u16 + 1`: the number of
\* entries is cut to 16 bits, and the sum wraps where overflow is not checked
next_section(tree, path) ==
    ((Cardinality(Children(tree, path)) % (U16Max + 1)) + 1) % (U16Max + 1)

\* the sum does not fit in a u16: a panic where overflow is checked
section_overflows(tree, path) ==
    Cardinality(Children(tree, path)) % (U16Max + 1) = U16Max

toc_fail(st, e, id, arg) == [st EXCEPT !.res = e, !.at = id, !.arg = arg]

\* the match on `target`: the entry is inserted under the parent reached
toc_insert(st, id, parent_id, title, target) ==
    IF target = <<>> THEN toc_fail(st, "InvalidParent", id, parent_id)
    ELSE IF st.build = "debug" /\ section_overflows(st.tree, target)
    THEN toc_fail(st, "Panic", id, 0)
    ELSE [st EXCEPT !.tree = st.tree \cup
            {TocEntry(id, title,
                      Append(EntryAt(st.tree, target).section_number,
                             next_section(st.tree, target)),
                      Append(target, id))}]

\* a faulty variant of toc_place: a page whose walk meets an unknown id is
\* left out of the TOC
toc_place_lenient(st, id, parent_id, title, walk) ==
    IF walk.res # "Ok" THEN st
    ELSE IF last_is_filled(walk.path) THEN toc_fail(st, "LevelLoop", id, 0)
    ELSE toc_insert(st, id, parent_id, title, descend(st.tree, Reverse(walk.path), <<>>))

\* after the walk over `parents`
toc_place(st, id, parent_id, title, walk) ==
    IF walk.res # "Ok" THEN toc_fail(st, "InvalidParent", id, parent_id)
    ELSE IF last_is_filled(walk.path) THEN toc_fail(st, "LevelLoop", id, 0)
    ELSE toc_insert(st, id, parent_id, title, descend(st.tree, Reverse(walk.path), <<>>))

\* after the title is read (t)
toc_titled(st, id, parent_id, t) ==
    IF t.res # "Ok" THEN toc_fail([st EXCEPT !.r = t.r], "TitleError", id, 0)
    ELSE IF parent_id = 0 /\ st.build = "debug" /\ section_overflows(st.tree, <<>>)
    THEN toc_fail([st EXCEPT !.r = t.r], "Panic", id, 0)
    ELSE IF parent_id = 0
    THEN [st EXCEPT !.r = t.r,
                    !.tree = st.tree \cup
                        {TocEntry(id, t.title, <<next_section(st.tree, <<>>)>>, <<id>>)}]
    ELSE toc_place([st EXCEPT !.r = t.r], id, parent_id, t.title,
                   parent_walk(st.parents, parent_id, <<>>))

\* the body of the loop of BookToc::new for one page:
\* st is [res, at, arg, parents, tree, r, build]
toc_visit(st, id, entry) ==
    toc_titled([st EXCEPT !.parents = parents_insert(st.parents, id, entry.parent_id)],
               id, entry.parent_id, get_page_title(entry, st.r))

RECURSIVE toc_loop(_, _, _)
toc_loop(st, entries, keys) ==
    IF keys = <<>> \/ st.res # "Ok" THEN st
    ELSE toc_loop(toc_visit(st, Head(keys), entries[Head(keys)]), entries, Tail(keys))

\* BookToc::new: [res, at, arg, parents, tree, r, build]; at is the page at
\* which the error was raised and arg the id the error carries
BookToc_new(r, entries, bld) ==
    toc_loop([res |-> "Ok", at |-> 0, arg |-> 0, parents |-> <<>>, tree |-> {}, r |-> r,
              build |-> bld],
             entries, btree_keys(entries))

-----------------------------------------------------------------------------
(* builder: BookBuilder and the Page setters                               *)

BookBuilder_new == [next_page_id |-> 1, metadata |-> <<>>, pages |-> <<>>]

\* a faulty variant of saturating_add_1: the id is not advanced
saturating_add_0(n) == n

\* NonZeroU32::saturating_add(1): u32::MAX stays; the value after 2^31 - 1
\* is the first residue
saturating_add_1(n) ==
    IF n = U32Max THEN n
    ELSE IF n = 2147483647 THEN -2147483647 - 1
    ELSE n + 1

\* BookBuilder::new_page
new_page(b, title) ==
    [b EXCEPT !.pages = Append(b.pages, Page_new(title, b.next_page_id)),
              !.next_page_id = saturating_add_1(b.next_page_id)]

\* BookBuilder::add_metadata
add_metadata(b, entry) == [b EXCEPT !.metadata = Append(b.metadata, entry)]

\* The setters act on the page new_page returned: the last one.
set_parent(b, page_id) == [b EXCEPT !.pages[Len(b.pages)].parent_id = page_id]
\* Page::add_metadata: the entry goes to the end of the list of the page
Page_add_metadata(b, entry) ==
    [b EXCEPT !.pages[Len(b.pages)].metadata = Append(b.pages[Len(b.pages)].metadata, entry)]
set_content(b, content) == [b EXCEPT !.pages[Len(b.pages)].content = content]
set_keywords(b, k) == [b EXCEPT !.pages[Len(b.pages)].keywords = Some(k)]
set_description(b, d) == [b EXCEPT !.pages[Len(b.pages)].description = Some(d)]


-----------------------------------------------------------------------------
(* The inputs of the operations.                                           *)

Builds == {"debug", "release"}
\* no compression, Deflate without compression and at the default level, Lz4
Compressions == {BlockCompression_None, Deflate(0), Deflate(6), Lz4}
TitleValues == {<<65>>}
KeywordValues == {<<107, 49>>}
DescriptionValues == {<<>>}
ContentValues == {<<45, 49>>}
PageMetadataValues == {Keyword(<<107, 49>>), Title(<<66>>)}
BookMetadataValues == {Title(<<84>>), Date(u64(1234)), User(<<117>>, <<118, 119>>)}
Prefix(n) == [i \in 1..n |-> 60]
\* the ids looked up: those of the pages of every book, and one more
LookupIds == 1..(MaxPages + 1)

\* the number of attributes set on the pages of a builder
edits_of(page) ==
    (IF page.parent_id # 0 THEN 1 ELSE 0) + (IF page.content # <<>> THEN 1 ELSE 0)
        + (IF page.keywords.some THEN 1 ELSE 0) + (IF page.description.some THEN 1 ELSE 0)
        + (Len(page.metadata) - 1)

RECURSIVE edits(_)
edits(pages) == IF pages = <<>> THEN 0 ELSE edits_of(Head(pages)) + edits(Tail(pages))

\* no codec and no data-block stream at work
NoCodec == [stage |-> "-"]
NoBlocks == [stage |-> "-"]

\* the outcome of the last reading operation on the book
NoResult == [op |-> "-", arg |-> 0, res |-> "-", items |-> <<>>, tree |-> {}]
Result(op, arg, res, items, tree) ==
    [op |-> op, arg |-> arg, res |-> res, items |-> items, tree |-> tree]

-----------------------------------------------------------------------------
(* The life of a book: build, dump, load, read.                            *)

Init ==
    /\ build = "-"
    /\ pc = "build"
    /\ builder = BookBuilder_new
    /\ out = Cursor(<<>>, 0)
    /\ beginning = 0
    /\ dumped = "-"
    /\ book = NoBook("-")
    /\ last = NoResult
    /\ ix = <<>>
    /\ kv = NoCodec
    /\ db = NoBlocks

Building(b) ==
    /\ pc = "build"
    /\ builder' = b
    /\ UNCHANGED <<build, pc, out, beginning, dumped, book, last, ix, kv, db>>

NewPage ==
    /\ Len(builder.pages) < MaxPages
    /\ \E title \in TitleValues : Building(new_page(builder, title))

AddMetadata ==
    /\ Len(builder.metadata) < MaxBookMeta
    /\ \E entry \in BookMetadataValues : Building(add_metadata(builder, entry))

CanEdit == builder.pages # <<>> /\ edits(builder.pages) < MaxEdits

SetParent ==
    /\ CanEdit
    /\ \E i \in 1..Len(builder.pages) : Building(set_parent(builder, builder.pages[i].id))

SetContent ==
    /\ CanEdit
    /\ \E c \in ContentValues : Building(set_content(builder, c))

AddPageMetadata ==
    /\ CanEdit
    /\ \E entry \in PageMetadataValues : Building(Page_add_metadata(builder, entry))

SetKeywords ==
    /\ CanEdit
    /\ \E k \in KeywordValues : Building(set_keywords(builder, k))

SetDescription ==
    /\ CanEdit
    /\ \E d \in DescriptionValues : Building(set_description(builder, d))

\* the two builds are told apart only when they write different streams
Dumped(p, bld, d, other) ==
    /\ pc = "build"
    /\ build' = IF d = other THEN "any" ELSE bld
    /\ beginning' = p
    /\ out' = d.out
    /\ dumped' = d.res
    /\ pc' = "dumped"
    /\ UNCHANGED <<builder, book, last, ix, kv, db>>

\* BookBuilder::dump into a stream that already holds p bytes
DumpAt(p) ==
    \/ Dumped(p, "debug", v1_dump(Cursor(Prefix(p), p), builder, "debug"),
              v1_dump(Cursor(Prefix(p), p), builder, "release"))
    \/ Dumped(p, "release", v1_dump(Cursor(Prefix(p), p), builder, "release"),
              v1_dump(Cursor(Prefix(p), p), builder, "debug"))

Dump == \E p \in 0..MaxPrefix : DumpAt(p)

\* Book::load of the stream, positioned where dump started
Load ==
    /\ pc = "dumped"
    /\ dumped = "Ok"
    /\ book' = persistence_load(Cursor(out.buf, beginning))
    /\ pc' = "loaded"
    /\ UNCHANGED <<build, builder, out, beginning, dumped, last, ix, kv, db>>

Reading(data_blocks, result) ==
    /\ pc = "loaded"
    /\ book.res = "Ok"
    /\ book' = [book EXCEPT !.data_blocks = data_blocks]
    /\ last' = result
    /\ UNCHANGED <<build, pc, builder, out, beginning, dumped, ix, kv, db>>

MetadataRead(m) == Reading(m.data_blocks, Result("metadata", 0, "Ok", m.items, {}))

\* Book::metadata, iterated to the end
Metadata == pc = "loaded" /\ book.res = "Ok" /\ MetadataRead(Book_metadata(book))

PagesRead(it) == Reading(it.r, Result("pages", 0, "Ok", it.items, {}))

\* Book::pages, iterated to the end
Pages ==
    pc = "loaded" /\ book.res = "Ok"
        /\ PagesRead(pages_iter(book.page_index, book.data_blocks))

PageRead(page_id, g) ==
    Reading(g.r, Result("get_page_by_id", page_id, g.res,
                        <<[res |-> g.res, page |-> g.page]>>, {}))

\* Book::get_page_by_id
GetPageById ==
    /\ pc = "loaded" /\ book.res = "Ok"
    /\ \E page_id \in LookupIds :
          PageRead(page_id, get_by_id(book.page_index, book.data_blocks, page_id))

TocRead(t) ==
    Reading(t.r, [op |-> "toc", arg |-> t.at, res |-> t.res, items |-> <<t.arg>>,
                  tree |-> IF t.res = "Ok" THEN t.tree ELSE {}])

\* Book::toc
Toc ==
    pc = "loaded" /\ book.res = "Ok"
        /\ \E bld \in {"debug", "release"} :
              TocRead(BookToc_new(book.data_blocks, book.page_index, bld))

Next ==
    \/ NewPage \/ AddMetadata \/ SetParent \/ SetContent \/ AddPageMetadata
    \/ SetKeywords \/ SetDescription \/ Dump \/ Load \/ Metadata \/ Pages \/ GetPageById \/ Toc

Spec == Init /\ [][Next]_vars


-----------------------------------------------------------------------------
(* The builder alone.                                                      *)

\* The builder is followed from its construction, or from the time it has
\* made all the pages but the last two, or the last one, that a u32 can
\* number: PagesMade is the number of new_page calls before, as a u32.
\* Each call gave its page next_page_id and advanced it, so that the
\* builder holds the pages 1..n after n calls and next_page_id is n + 1.
\* The model does not keep those pages: builder.pages has the pages made
\* from then on, and db.made is n.
PagesMade == {0, U32Max - 2, U32Max - 1}

BuilderAfter(n) == [BookBuilder_new EXCEPT !.next_page_id = saturating_add_1(n)]

InitBuilder ==
    /\ build = "-"
    /\ pc = "build"
    /\ \E n \in PagesMade :
          /\ builder = BuilderAfter(n)
          /\ db = [stage |-> "builder", made |-> n]
    /\ out = Cursor(<<>>, 0)
    /\ beginning = 0
    /\ dumped = "-"
    /\ book = NoBook("-")
    /\ last = NoResult
    /\ ix = <<>>
    /\ kv = NoCodec

NextBuilder ==
    \/ NewPage \/ AddMetadata \/ SetParent \/ SetContent \/ AddPageMetadata
    \/ SetKeywords \/ SetDescription

SpecBuilder == InitBuilder /\ [][NextBuilder]_vars

-----------------------------------------------------------------------------
(* Books with given parents: pages 1..n, the page i with the parent f[i]   *)
(* (0 for none), made with new_page and set_parent.                        *)

PageTitle(i) == <<64 + i>>

with_parent(b, parent_id) == IF parent_id = 0 THEN b ELSE set_parent(b, parent_id)

RECURSIVE book_with_parents(_, _)
book_with_parents(f, n) ==
    IF n = 0 THEN BookBuilder_new
    ELSE with_parent(new_page(book_with_parents(f, n - 1), PageTitle(n)), f[n])

\* every choice of parents for up to MaxTocId pages: none, any page of the
\* book (itself and later pages included) or an id that is not in the book
SmallBooks ==
    UNION {{book_with_parents(f, n) : f \in [1..n -> 0..(n + 1)]} : n \in 1..MaxTocId}

\* a single chain: each page is the child of the page before it
ChainBooks == {book_with_parents([i \in 1..n |-> i - 1], n) : n \in 1..MaxChain}

InitToc ==
    /\ builder \in SmallBooks \cup ChainBooks
    /\ build = "-"
    /\ pc = "build"
    /\ out = Cursor(<<>>, 0)
    /\ beginning = 0
    /\ dumped = "-"
    /\ book = NoBook("-")
    /\ last = NoResult
    /\ ix = <<>>
    /\ kv = NoCodec
    /\ db = NoBlocks

NextToc == DumpAt(0) \/ Load \/ Toc

SpecToc == InitToc /\ [][NextToc]_vars

-----------------------------------------------------------------------------
(* Containers with a given page index: the dump of a book of MaxIndex      *)
(* root pages in which the index is replaced by the entries of the ids of  *)
(* ix, in that order, and num_pages by their number.  The id 0 stands for  *)
(* the entry of page 1 with its id set to 0, and the id U32Max for the     *)
(* entry of page 2 with its id set to 4294967295.                          *)

IndexBook == book_with_parents([i \in 1..MaxIndex |-> 0], MaxIndex)
IndexFile == v1_dump(Cursor(<<>>, 0), IndexBook, "release").out.buf
IndexHeader == Header_read(SubSeq(IndexFile, MAGIC_SIZE + 1, MAGIC_SIZE + 16))

entry_on_disk(k) ==
    IndexEntry_read(SubSeq(IndexFile, IndexHeader.pages_pos + 24 * (k - 1) + 1,
                           IndexHeader.pages_pos + 24 * k))

entry_with_id(id) ==
    IF id = 0 THEN [entry_on_disk(1) EXCEPT !.id = 0]
    ELSE IF id = U32Max THEN [entry_on_disk(2) EXCEPT !.id = U32Max]
    ELSE entry_on_disk(id)

RECURSIVE entries_bytes(_)
entries_bytes(ids) ==
    IF ids = <<>> THEN <<>>
    ELSE IndexEntry_write(entry_with_id(Head(ids))) \o entries_bytes(Tail(ids))

file_with_index(ids) ==
    MAGIC \o Header_write([IndexHeader EXCEPT !.num_pages = Len(ids)])
        \o SubSeq(IndexFile, MAGIC_SIZE + 17, IndexHeader.pages_pos)
        \o entries_bytes(ids)

IndexIds == 0..MaxIndex \cup {U32Max}
IndexSeqs == UNION {[1..n -> IndexIds] : n \in 0..MaxIndex}

InitIndex ==
    /\ ix \in IndexSeqs
    /\ builder = IndexBook
    /\ build = "any"
    /\ pc = "dumped"
    /\ out = Cursor(file_with_index(ix), Len(file_with_index(ix)))
    /\ beginning = 0
    /\ dumped = "Ok"
    /\ book = NoBook("-")
    /\ last = NoResult
    /\ kv = NoCodec
    /\ db = NoBlocks

NextIndex == Load \/ Pages \/ GetPageById

SpecIndex == InitIndex /\ [][NextIndex]_vars


-----------------------------------------------------------------------------
(* Damaged containers: the dump of a book of two pages in which one byte   *)
(* was changed before the load.  ix is <<i, b>>: the byte i was set to b.  *)
(* The stream does not change afterwards.                                  *)

SampleBook ==
    set_keywords(
        set_content(
            set_parent(
                new_page(set_content(new_page(add_metadata(BookBuilder_new, Title(<<84>>)),
                                              PageTitle(1)),
                                     <<10>>),
                         PageTitle(2)),
                1),
            <<11, 12>>),
        <<75>>)

SampleFile == v1_dump(Cursor(<<>>, 0), SampleBook, "release").out.buf

FileBytes == {0, 1, 7, 255}

InitDamaged ==
    /\ ix \in {d \in (1..Len(SampleFile)) \X FileBytes : SampleFile[d[1]] # d[2]}
    /\ builder = SampleBook
    /\ build = "any"
    /\ pc = "dumped"
    /\ out = Cursor([SampleFile EXCEPT ![ix[1]] = ix[2]], Len(SampleFile))
    /\ beginning = 0
    /\ dumped = "Ok"
    /\ book = NoBook("-")
    /\ last = NoResult
    /\ kv = NoCodec
    /\ db = NoBlocks

NextDamaged == Load \/ Metadata \/ Pages \/ GetPageById \/ Toc

SpecDamaged == InitDamaged /\ [][NextDamaged]_vars


-----------------------------------------------------------------------------
(* The codecs alone: a sequence of entries is serialized, the bytes may be  *)
(* damaged, and the iterator is called until it has been called MaxNext     *)
(* times.  kv is [stage, codec, xs, damaged, p, items]: p is the parser and *)
(* items the items returned so far, each with the input position (at) and  *)
(* the io_valid flag (valid) with which its call started.                  *)

MaxEntries == 2     \* entries of a serialized list
MaxNext == 4        \* calls of next() on one iterator
MaxDamage == 6      \* the damage is within this many bytes from the start

LongValue == [i \in 1..130 |-> 97]

\* (tag, value) pairs over the page tags; one value is a letter of two
\* bytes in UTF-8
KvEntries == {<<1, <<>>>>, <<1, <<65>>>>, <<2, <<195, 169>>>>, <<3, LongValue>>}

\* book metadata entries, one for each tag
MetadataEntries ==
    {Title(<<84>>), Author(<<>>), Language(<<101, 110>>), Date(u64(1234567890)),
     License(<<76>>), Keyword(LongValue), User(<<117>>, <<118, 119>>)}

SeqsUpTo(S, n) == UNION {[1..k -> S] : k \in 0..n}

\* the bytes put in the place of a byte of the input
DamageBytes == {0, 3, 9, 100, 200}

\* no book is being built, dumped or read
Idle ==
    /\ build = "-"
    /\ pc = "-"
    /\ builder = BookBuilder_new
    /\ out = Cursor(<<>>, 0)
    /\ beginning = 0
    /\ dumped = "-"
    /\ book = NoBook("-")
    /\ last = NoResult
    /\ ix = <<>>

NoParser == [input |-> Cursor(<<>>, 0), input_len |-> 0, io_valid |-> TRUE]

InitCodec ==
    /\ kv \in {[stage |-> "new", codec |-> c, xs |-> xs, damaged |-> FALSE,
                p |-> NoParser, items |-> <<>>] :
                  c \in {"kvlist"}, xs \in SeqsUpTo(KvEntries, MaxEntries)}
          \cup {[stage |-> "new", codec |-> c, xs |-> xs, damaged |-> FALSE,
                 p |-> NoParser, items |-> <<>>] :
                  c \in {"metadata"}, xs \in SeqsUpTo(MetadataEntries, MaxEntries)}
    /\ db = NoBlocks
    /\ Idle

Codec(k) ==
    /\ kv' = k
    /\ UNCHANGED <<build, pc, builder, out, beginning, dumped, book, last, ix, db>>

\* kvlist::serialize into an empty vector, and kvlist::deserialize over it
KvSerialize ==
    /\ kv.stage = "new" /\ kv.codec = "kvlist"
    /\ Codec([kv EXCEPT !.stage = "bytes",
                        !.p = StreamParser(Cursor(kvlist_serialize(kv.xs), 0),
                                           Len(kvlist_serialize(kv.xs)))])

\* metadata::dump into an empty vector, and metadata::load over it
MetadataDump ==
    /\ kv.stage = "new" /\ kv.codec = "metadata"
    /\ Codec([kv EXCEPT !.stage = "bytes",
                        !.p = BinaryDataParser(
                                Cursor(metadata_dump(Cursor(<<>>, 0), kv.xs).buf, 0),
                                Len(metadata_dump(Cursor(<<>>, 0), kv.xs).buf))])

\* the input is cut short, or one of its bytes is replaced, before it is read
Damaged(bytes) ==
    Codec([kv EXCEPT !.damaged = TRUE,
                     !.p = [kv.p EXCEPT !.input = Cursor(bytes, 0),
                                        !.input_len = Len(bytes)]])

Damage ==
    /\ kv.stage = "bytes" /\ ~kv.damaged
    /\ \/ \E k \in 0..MaxDamage :
            k < Len(kv.p.input.buf) /\ Damaged(Take(kv.p.input.buf, k))
       \/ \E i \in 1..MaxDamage, b \in DamageBytes :
            /\ i <= Len(kv.p.input.buf)
            /\ kv.p.input.buf[i] # b
            /\ Damaged([kv.p.input.buf EXCEPT ![i] = b])

CanCallNext == kv.stage \in {"bytes", "parsing"} /\ Len(kv.items) < MaxNext

KvReturned(n) ==
    Codec([kv EXCEPT !.stage = "parsing", !.p = n.p,
                     !.items = Append(kv.items, [item |-> n.item, tag |-> n.tag,
                                                 bytes |-> n.bytes,
                                                 at |-> kv.p.input.pos,
                                                 valid |-> kv.p.io_valid])])

\* one call of StreamParser::next
KvNext == CanCallNext /\ kv.codec = "kvlist" /\ KvReturned(StreamParser_next(kv.p))

MetadataReturned(n) ==
    Codec([kv EXCEPT !.stage = "parsing", !.p = n.p,
                     !.items = Append(kv.items, [item |-> n.item, entry |-> n.entry,
                                                 at |-> kv.p.input.pos,
                                                 valid |-> kv.p.io_valid])])

\* one call of BinaryDataParser::next
MetadataNext ==
    CanCallNext /\ kv.codec = "metadata" /\ MetadataReturned(BinaryDataParser_next(kv.p))

NextCodec == KvSerialize \/ MetadataDump \/ Damage \/ KvNext \/ MetadataNext

SpecCodec == InitCodec /\ [][NextCodec]_vars


-----------------------------------------------------------------------------
(* The data blocks alone: fragments are written through a DataBlocksWriter  *)
(* into a stream that holds a prefix, the writer is finished, and the       *)
(* fragments are read back through a DataBlocksReader.  db is               *)
(* [stage, build, prefix, huge, w, log, res, r, reads, read]: prefix is the *)
(* length of the prefix; log has, for each fragment made, its location, its *)
(* size hint, the bytes written to it and the state of the writer before it *)
(* was made (was); read is the last with_block.  A block may also be filled *)
(* up to 2^32 bytes: huge is then the length of its payload, whose bytes    *)
(* are not held in buf, and the stream is not read back.                    *)

MaxFragments == 3   \* fragments written to one stream
MaxReads == 2       \* with_block calls on the stream written

\* 1, the sizes around MAX_DATA_BLOCK_SIZE and its half, u64::MAX and the
\* value below it
SizeHints == {1, 32768, 65535, 65536, 65537, U64Max - 1, U64Max}

RunLen == 8         \* the bytes of a fragment that is a run

\* the bytes written to the i-th fragment: none, or one byte of its own;
\* or, the first fragment, a run of one byte
FragmentBytes(i) ==
    {<<>>, <<10 * i>>} \cup (IF i = 1 THEN {[j \in 1..RunLen |-> 10]} ELSE {})

PrefixLens == {0, 6}

NoRead == [block_id |-> 0, offset |-> 0, fragment |-> 0, res |-> "-", data |-> <<>>]

InitBlocks ==
    /\ db \in {[stage |-> "writing", build |-> bld, prefix |-> n, huge |-> [hi |-> 0, lo |-> 0],
                w |-> DataBlocksWriter_with(Cursor(Prefix(n), n), c),
                log |-> <<>>, res |-> "Ok",
                r |-> DataBlocksReader_new(Cursor(<<>>, 0)), reads |-> 0,
                read |-> NoRead] :
                  bld \in Builds, n \in PrefixLens, c \in Compressions}
    /\ kv = NoCodec
    /\ Idle

Blocks(d) ==
    /\ db' = d
    /\ UNCHANGED <<build, pc, builder, out, beginning, dumped, book, last, ix, kv>>

\* the fragment f was made with the hint and the bytes are written to it
Fragmented(f, hint, bytes) ==
    IF f.res # "Ok" THEN Blocks([db EXCEPT !.stage = "failed", !.res = f.res, !.w = f.w])
    ELSE Blocks([db EXCEPT !.w = Fragment_write(f.w, bytes),
                           !.log = Append(db.log,
                                          [block_id |-> f.block_id, offset |-> f.offset,
                                           hint |-> hint, bytes |-> bytes,
                                           was |-> [state |-> db.w.state,
                                                    block_id |-> db.w.block_id,
                                                    offset |-> db.w.offset]])])

\* DataBlocksWriter::fragment and the writes to the Fragment
WriteFragment ==
    /\ db.stage = "writing"
    /\ Len(db.log) < MaxFragments
    /\ \E hint \in SizeHints, bytes \in FragmentBytes(Len(db.log) + 1) :
          Fragmented(fragment(db.w, hint, db.build), hint, bytes)

\* the payloads at the limit of the length field, 2^32 - 1 and 2^32
\* bytes, as [hi, lo]
HugeLens == {[hi |-> 3, lo |-> 1073741823], [hi |-> 4, lo |-> 0]}

\* Fragment::write_all until the payload of the active block has `total`
\* bytes: the stream stands that far after the header of the block (the
\* offset of the block has the same high part as the stream)
WriteHuge ==
    /\ db.stage = "writing"
    /\ db.w.state = "Active"
    /\ db.w.compression.kind = "None"
    /\ \E total \in HugeLens :
          Blocks([db EXCEPT !.stage = "huge", !.huge = total,
                            !.w = [db.w EXCEPT !.stream = [buf |-> db.w.stream.buf,
                                                           pos |-> db.w.block_id + 5 + total.lo,
                                                           hi |-> total.hi],
                                               !.offset = total.lo]])

Finished(fin) ==
    Blocks([db EXCEPT !.stage = IF fin.res # "Ok" THEN "failed"
                                ELSE IF db.stage = "huge" THEN "closed" ELSE "finished",
                      !.res = fin.res,
                      !.w = [db.w EXCEPT !.state = "Wait", !.stream = fin.stream]])

\* DataBlocksWriter::finish
Finish == db.stage \in {"writing", "huge"} /\ Finished(finish(db.w, db.build))

\* DataBlocksReader::new over the stream written
OpenReader ==
    /\ db.stage = "finished"
    /\ Blocks([db EXCEPT !.stage = "reading",
                         !.r = DataBlocksReader_new(Cursor(db.w.stream.buf, 0))])

WasRead(block_id, offset, i, b) ==
    Blocks([db EXCEPT !.r = b.r, !.reads = db.reads + 1,
                      !.read = [block_id |-> block_id, offset |-> offset,
                                fragment |-> i, res |-> b.res, data |-> b.data]])

\* DataBlocksReader::with_block at the location of a fragment
ReadFragment ==
    /\ db.stage = "reading"
    /\ db.reads < MaxReads
    /\ \E i \in 1..Len(db.log) :
          WasRead(db.log[i].block_id, db.log[i].offset, i,
                  with_block(db.r, db.log[i].block_id, db.log[i].offset))

NextBlocks == WriteFragment \/ WriteHuge \/ Finish \/ OpenReader \/ ReadFragment

SpecBlocks == InitBlocks /\ [][NextBlocks]_vars


-----------------------------------------------------------------------------
(* with_block at any location: a stream with a block of two bytes and a     *)
(* block of one byte, written through a DataBlocksWriter, followed by the   *)
(* header of a block whose length is beyond the end of the stream.  db is   *)
(* [stage, build, log, r, reads, read]: log has the location and the        *)
(* payload of the two blocks written.                                       *)

MaxCalls == 3       \* with_block calls on the stream
MaxOffset == 3      \* offsets 0..MaxOffset are asked for

FirstPayload == <<10, 11>>
SecondPayload == <<20>>

\* an Uncompressed block header that declares 9 bytes, at the end of the stream
BeyondHeader == <<Uncompressed, 0, 0, 0, 9>>

ReadsOver(bld, f1, f2, fin) ==
    [stage |-> "calls", build |-> bld,
     log |-> <<[block_id |-> f1.block_id, offset |-> f1.offset, bytes |-> FirstPayload],
               [block_id |-> f2.block_id, offset |-> f2.offset, bytes |-> SecondPayload]>>,
     r |-> DataBlocksReader_new(Cursor(fin.stream.buf \o BeyondHeader, 0)),
     reads |-> 0, read |-> NoRead]

ReadsSecond(bld, f1, f2) ==
    ReadsOver(bld, f1, f2, finish(Fragment_write(f2.w, SecondPayload), bld))

ReadsFirst(bld, f1) ==
    ReadsSecond(bld, f1, fragment(Fragment_write(f1.w, FirstPayload), U64Max, bld))

ReadsStart(bld, n, c) ==
    ReadsFirst(bld, fragment(DataBlocksWriter_with(Cursor(Prefix(n), n), c), 1, bld))

InitReads ==
    /\ db \in {ReadsStart(bld, n, c) : bld \in Builds, n \in PrefixLens, c \in Compressions}
    /\ kv = NoCodec
    /\ Idle

\* the block ids asked for: the two blocks, the second byte of the first
\* block, the header at the end, and the end of the stream
BlockIdsAsked ==
    {db.log[1].block_id, db.log[2].block_id, db.log[1].block_id + 1,
     db.r.stream_len - Len(BeyondHeader), db.r.stream_len}

\* DataBlocksReader::with_block; a panic ends the calls
ReadAt ==
    /\ db.stage = "calls"
    /\ db.reads < MaxCalls
    /\ db.read.res # "Panic"
    /\ \E block_id \in BlockIdsAsked, offset \in 0..MaxOffset :
          WasRead(block_id, offset, 0, with_block(db.r, block_id, offset))

NextReads == ReadAt

SpecReads == InitReads /\ [][NextReads]_vars


-----------------------------------------------------------------------------
(* The cache of the reader: a stream of ManyBlocks blocks of one byte is    *)
(* written, then read in order, with some blocks read again in between.     *)
(* db is [stage, build, w, ids, r, next, rereads, uses, read]: ids are the  *)
(* block ids in the stream, next the next block to read in order, uses the  *)
(* block ids given to with_block so far.                                    *)

ManyBlocks == 18    \* blocks in the stream, above LRU_CACHE_SIZE
MaxRereads == 2     \* with_block calls out of order

InitLru ==
    /\ db \in {[stage |-> "filling", build |-> bld,
                w |-> DataBlocksWriter_with(Cursor(Prefix(n), n), c),
                ids |-> <<>>, r |-> DataBlocksReader_new(Cursor(<<>>, 0)),
                next |-> 1, rereads |-> 0, uses |-> <<>>, read |-> NoRead] :
                  bld \in {"release"}, n \in PrefixLens, c \in Compressions}
    /\ kv = NoCodec
    /\ Idle

Filled(f) ==
    Blocks([db EXCEPT !.w = Fragment_write(f.w, <<Len(db.ids) + 1>>),
                      !.ids = Append(db.ids, f.block_id)])

\* a fragment of one byte that asks for the whole block size: each one
\* after the first closes the block before it
FillBlock ==
    /\ db.stage = "filling"
    /\ Len(db.ids) < ManyBlocks
    /\ Filled(fragment(db.w, MAX_DATA_BLOCK_SIZE, db.build))

FilledAll(fin) ==
    Blocks([db EXCEPT !.stage = "lru",
                      !.w = [db.w EXCEPT !.state = "Wait", !.stream = fin.stream],
                      !.r = DataBlocksReader_new(Cursor(fin.stream.buf, 0))])

\* DataBlocksWriter::finish, and DataBlocksReader::new over the stream
FillEnd ==
    /\ db.stage = "filling"
    /\ Len(db.ids) = ManyBlocks
    /\ FilledAll(finish(db.w, db.build))

LruRead(block_id, offset, b, next, rereads) ==
    Blocks([db EXCEPT !.r = b.r, !.next = next, !.rereads = rereads,
                      !.uses = Append(db.uses, block_id),
                      !.read = [block_id |-> block_id, offset |-> offset,
                                fragment |-> 0, res |-> b.res, data |-> b.data]])

\* with_block on the next block of the stream
ReadNext ==
    /\ db.stage = "lru"
    /\ db.next <= Len(db.ids)
    /\ db.read.res # "Panic"
    /\ LruRead(db.ids[db.next], 0, with_block(db.r, db.ids[db.next], 0),
               db.next + 1, db.rereads)

\* the blocks read out of order: the first two and the one after
\* LRU_CACHE_SIZE blocks
RereadBlocks == {1, 2, LRU_CACHE_SIZE + 1}

\* with_block on one of the blocks, read before or not, at its start or
\* beyond its end
ReadAgain ==
    /\ db.stage = "lru"
    /\ db.rereads < MaxRereads
    /\ db.read.res # "Panic"
    /\ \E i \in RereadBlocks, offset \in {0, 2} :
          LruRead(db.ids[i], offset, with_block(db.r, db.ids[i], offset),
                  db.next, db.rereads + 1)

NextLru == FillBlock \/ FillEnd \/ ReadNext \/ ReadAgain

SpecLru == InitLru /\ [][NextLru]_vars


-----------------------------------------------------------------------------
(* build_page over a content block with any payload: the stream has a      *)
(* block with the payload and a block with the metadata of one page, and   *)
(* the index entry of the page points into the first at any offset.  db is *)
(* [stage, build, payload, entry, r, res, page].                           *)

MaxContent == 3         \* bytes of the short payloads
MaxContentOffset == 4   \* content_block_offset is in 0..MaxContentOffset

\* bytes of lengths, of ASCII text and of groups with the continuation bit
ContentBytes == {0, 1, 2, 65, 128, 255}

Ones(n) == [i \in 1..n |-> 255]

\* ten-byte lengths: 2^64 - 1, 2^64 - 10 and 2^64 - 11, 2^63, and 2^30 in
\* five bytes, alone and followed by a byte
LongLengths ==
    {Ones(9) \o <<1>>, <<246>> \o Ones(8) \o <<1>>, <<245>> \o Ones(8) \o <<1>>,
     <<128, 128, 128, 128, 128, 128, 128, 128, 128, 1>>, <<128, 128, 128, 128, 4>>,
     Ones(9) \o <<1, 65>>}

ContentPayloads == SeqsUpTo(ContentBytes, MaxContent) \cup LongLengths

ContentTitle == <<84>>

ContentOver(bld, payload, co, f1, fm, fin) ==
    [stage |-> "content", build |-> bld, payload |-> payload,
     entry |-> IndexEntry(1, 0, fm.block_id, fm.offset, f1.block_id, co),
     r |-> DataBlocksReader_new(Cursor(fin.stream.buf, 0)),
     res |-> "-", page |-> NoPage]

ContentMetadata(bld, payload, co, f1, fm) ==
    ContentOver(bld, payload, co, f1, fm,
                finish(Fragment_write(fm.w, kvlist_serialize(<<<<1, ContentTitle>>>>)), bld))

ContentFirst(bld, payload, co, f1) ==
    ContentMetadata(bld, payload, co, f1,
                    fragment(Fragment_write(f1.w, payload), U64Max, bld))

ContentStart(bld, payload, co) ==
    ContentFirst(bld, payload, co,
                 fragment(DataBlocksWriter_new(Cursor(<<>>, 0)), Len(payload), bld))

InitContent ==
    /\ db \in {ContentStart(bld, payload, co) :
                  bld \in Builds, payload \in ContentPayloads, co \in 0..MaxContentOffset}
    /\ kv = NoCodec
    /\ Idle

\* the outcome of a visitor in a build
in_build(bld, res) ==
    IF res = "AddOverflow" THEN (IF bld = "debug" THEN "Panic" ELSE "InvalidLength")
    ELSE res

PageBuilt(b) ==
    Blocks([db EXCEPT !.stage = "built", !.res = in_build(db.build, b.res),
                      !.page = b.page, !.r = b.r])

\* build_page for the entry
BuildPage == db.stage = "content" /\ PageBuilt(build_page(db.entry, db.r))

NextContent == BuildPage

SpecContent == InitContent /\ [][NextContent]_vars


-----------------------------------------------------------------------------
(* Many pages at one level: BookToc::new at work on an index of root pages *)
(* with the ids 1, 2, ..., all with the metadata of the one page of a      *)
(* dumped book.  db is [stage, st, next, visits]: st is the state of the   *)
(* loop of BookToc::new after the pages before `next` were visited.        *)

MaxVisits == 2      \* pages visited from the starting state

\* the number of root pages already visited at the start
RootCounts == {0, 1, 2, 3, 4, U16Max}

SiblingsBook ==
    persistence_load(Cursor(v1_dump(Cursor(<<>>, 0),
                                    book_with_parents([i \in 1..1 |-> 0], 1),
                                    "release").out.buf, 0))

\* the index entry of the page id: that of the dumped page with its id and
\* parent replaced
sibling_entry(id, parent_id) ==
    [SiblingsBook.page_index[1] EXCEPT !.id = id, !.parent_id = parent_id]

\* the state of the loop after n root pages
RootsVisited(n, bld) ==
    [res |-> "Ok", at |-> 0, arg |-> 0,
     parents |-> [i \in 1..n |-> 0],
     tree |-> {TocEntry(i, PageTitle(1), <<i>>, <<i>>) : i \in 1..n},
     r |-> SiblingsBook.data_blocks,
     build |-> bld]

InitSiblings ==
    /\ db \in {[stage |-> "toc", st |-> RootsVisited(n, bld), next |-> n + 1, visits |-> 0] :
                  n \in RootCounts, bld \in Builds}
    /\ kv = NoCodec
    /\ Idle

\* the body of the loop of BookToc::new for the next page, a root page or a
\* child of the first or of the last page
VisitPage ==
    /\ db.stage = "toc"
    /\ db.st.res = "Ok"
    /\ db.visits < MaxVisits
    /\ \E parent_id \in {0, 1, db.next - 1} :
          Blocks([db EXCEPT !.st = toc_visit(db.st, db.next,
                                             sibling_entry(db.next, parent_id)),
                            !.next = db.next + 1,
                            !.visits = db.visits + 1])

NextSiblings == VisitPage

SpecSiblings == InitSiblings /\ [][NextSiblings]_vars


-----------------------------------------------------------------------------
(* Properties of the dump/load round trip (Spec).                          *)

PageIds(pages) == {pages[i].id : i \in 1..Len(pages)}
\* the page of a builder as page::persistence dumps and rebuilds it: the
\* fields it reads, without the list Page::add_metadata appends to
Persisted(page) ==
    Page(page.id, page.parent_id, page.title, page.keywords, page.description, page.content)
OkPages(pages) == [i \in 1..Len(pages) |-> [res |-> "Ok", page |-> Persisted(pages[i])]]
OkEntries(metadata) == [i \in 1..Len(metadata) |-> [item |-> "Ok", entry |-> metadata[i]]]

\* what the reading operations of a loaded book must return for the book
\* that was dumped
ReadsBack ==
    /\ last.op = "pages" => last.items = OkPages(builder.pages)
    /\ (last.op = "get_page_by_id" /\ last.arg \in PageIds(builder.pages))
          => last.items = <<[res |-> "Ok", page |-> Persisted(builder.pages[last.arg])]>>
    /\ last.op = "metadata" => last.items = OkEntries(builder.metadata)

\* C1: every book made with the builder is dumped without error, and the
\* book loaded from the bytes has the same number of pages, returns pages
\* equal to the originals from pages() and get_page_by_id(), and the book
\* metadata in write order (the container being at the start of its stream).
C1_RoundTrip ==
    beginning = 0 =>
        /\ pc # "build" => dumped = "Ok"
        /\ pc = "loaded" => (book.res = "Ok" /\ book.num_pages = Len(builder.pages))
        /\ ReadsBack

\* C2: a book with pages dumped at a stream position p > 0 is loaded from
\* that position, with the pages and the metadata that were dumped.
C2_AnyStreamPosition ==
    (beginning > 0 /\ builder.pages # <<>>) =>
        /\ pc = "loaded" => (book.res = "Ok" /\ book.num_pages = Len(builder.pages))
        /\ ReadsBack

\* C3: the dump of a builder with no pages succeeds and leaves the magic
\* intact; the book loaded from it has no pages, an empty TOC, and the book
\* metadata that was added.
C3_EmptyBook ==
    (beginning = 0 /\ builder.pages = <<>>) =>
        /\ pc # "build" => (dumped = "Ok" /\ Take(out.buf, MAGIC_SIZE) = MAGIC)
        /\ pc = "loaded" => (book.res = "Ok" /\ book.num_pages = 0)
        /\ last.op = "toc" => (last.res = "Ok" /\ last.tree = {})
        /\ ReadsBack

-----------------------------------------------------------------------------
(* Properties of the builder (SpecBuilder).                                *)

\* the page i of builder.pages is the page of a new_page call up to the
\* (2^32 - 1)-th: db.made + i, as a number, is below 2^32
UpToMax(i) == db.made >= 0 \/ db.made + i < 0

\* C7 as stated, for any number of calls: every id is nonzero, the pages
\* of a builder followed from its construction carry the ids 1, 2, 3, ...
\* in the order of their insertion, every page has an id above those of
\* the pages before it (the pages 1..db.made and the pages held), so no
\* two ids are equal, and new_page appends its page after the pages
\* already held.
C7_BuilderIds ==
    /\ [](\A i \in 1..Len(builder.pages) :
              /\ builder.pages[i].id # 0
              /\ db.made = 0 => builder.pages[i].id = i
              /\ db.made = 0 \/ lt_u32(db.made, builder.pages[i].id)
              /\ \A j \in 1..(i - 1) : lt_u32(builder.pages[j].id, builder.pages[i].id))
    /\ [][Len(builder'.pages) # Len(builder.pages)
            => /\ Len(builder'.pages) = Len(builder.pages) + 1
               /\ Take(builder'.pages, Len(builder.pages)) = builder.pages]_vars

\* C7: the k-th page a builder makes has the id k for every k up to
\* 2^32 - 1 (so these ids are nonzero, in increasing order from 1, and no
\* two are equal), every page made after that has the id u32::MAX again,
\* and new_page appends its page after the pages already held.
C7_BuilderIdsUpToMax ==
    /\ [](\A i \in 1..Len(builder.pages) :
              /\ builder.pages[i].id # 0
              /\ builder.pages[i].id = (IF UpToMax(i) THEN db.made + i ELSE U32Max)
              /\ UpToMax(i) =>
                    /\ db.made = 0 \/ lt_u32(db.made, builder.pages[i].id)
                    /\ \A j \in 1..(i - 1) :
                          lt_u32(builder.pages[j].id, builder.pages[i].id))
    /\ [][Len(builder'.pages) # Len(builder.pages)
            => /\ Len(builder'.pages) = Len(builder.pages) + 1
               /\ Take(builder'.pages, Len(builder.pages)) = builder.pages]_vars

\* the pages 2^32 - 2 and 2^32 - 1 are made: their ids differ and the
\* second is u32::MAX
C7_Witness ==
    /\ db.made = U32Max - 2
    /\ Len(builder.pages) = 2
    /\ builder.pages[1].id = U32Max - 1
    /\ builder.pages[2].id = U32Max
    /\ builder.next_page_id = U32Max

-----------------------------------------------------------------------------
(* Properties of the page index (SpecIndex): ix is the sequence of the ids *)
(* of the on-disk index.                                                   *)

Range(q) == {q[i] : i \in 1..Len(q)}

\* the position in ids of the first entry that is 0 or repeats an earlier
\* one; 0 when there is none
Offends(ids, k) == ids[k] = 0 \/ \E j \in 1..(k - 1) : ids[j] = ids[k]
FirstOffending(ids) ==
    IF \E k \in 1..Len(ids) : Offends(ids, k)
    THEN Min({k \in 1..Len(ids) : Offends(ids, k)}) ELSE 0

\* C4: pages() yields one page for each id of the index, in strictly
\* ascending id order, whatever the order of the entries in the on-disk
\* index.
C4_PagesAscending ==
    last.op = "pages" =>
        /\ Len(last.items) = Len(ix)
        /\ \A i \in 1..Len(last.items) : last.items[i].res = "Ok"
        /\ \A i, j \in 1..Len(last.items) :
              i < j => lt_u32(last.items[i].page.id, last.items[j].page.id)
        /\ {last.items[i].page.id : i \in 1..Len(last.items)} = Range(ix)

C4_Witness ==
    /\ last.op = "pages"
    /\ Len(ix) = 3
    /\ ix[1] = U32Max /\ lt_u32(ix[3], ix[2])
    /\ Len(last.items) = 3
    /\ last.items[3].page.id = U32Max

\* C5: get_page_by_id returns InvalidId for an id that is not in the index
\* and leaves the book as it was; for an id of the index it returns the page
\* with that id, the one pages() yields for it.
C5_GetPageById ==
    /\ [](last.op = "get_page_by_id" =>
            IF last.arg \in DOMAIN book.page_index
            THEN /\ last.res = "Ok"
                 /\ last.items[1].page.id = last.arg
                 /\ last.items[1]
                       \in Range(pages_iter(book.page_index, book.data_blocks).items)
            ELSE last.res = "InvalidId")
    /\ [][(last'.op = "get_page_by_id" /\ last'.res = "InvalidId") => book' = book]_vars

C5_Witness ==
    /\ last.op = "get_page_by_id"
    /\ last.res = "InvalidId"
    /\ book.page_index # <<>>
    /\ book.data_blocks.cache # <<>>

\* C6: load fails at the first entry of the on-disk index that has the id 0
\* (InvalidId) or the id of an earlier entry (DuplicatedId): the error is
\* that of this entry, no later entry is read and no Book is returned.
C6_LoadFails ==
    (pc = "loaded" /\ FirstOffending(ix) # 0) =>
        /\ book.res = (IF ix[FirstOffending(ix)] = 0 THEN "InvalidId" ELSE "DuplicatedId")
        /\ book.arg = ix[FirstOffending(ix)]
        /\ book.read = FirstOffending(ix)
        /\ book.page_index = <<>>

C6_Witness ==
    /\ pc = "loaded"
    /\ Len(ix) = 3
    /\ ix[1] = ix[2] /\ ix[1] # 0 /\ ix[3] = 0
    /\ book.res = "DuplicatedId"
    /\ book.read = 2


-----------------------------------------------------------------------------
(* Properties of the table of contents (SpecToc).                          *)

\* the parent of every page of the loaded index
ParentOf == [k \in DOMAIN book.page_index |-> book.page_index[k].parent_id]

\* the number of ancestors of the page i, each with a smaller id than its
\* child, up to a root; -1 when the chain leaves the pages of smaller id
one_more(n) == IF n < 0 THEN -1 ELSE n + 1

RECURSIVE AncestorCount(_, _)
AncestorCount(P, i) ==
    IF P[i] = 0 THEN 0
    ELSE IF P[i] \notin DOMAIN P \/ ~lt_u32(P[i], i) THEN -1
    ELSE one_more(AncestorCount(P, P[i]))

\* the first page, in ascending id, that does not have between 0 and
\* MAX_SUB_LEVEL - 1 such ancestors; 0 when there is none
Unplaced(P) == {i \in DOMAIN P : AncestorCount(P, i) \notin 0..(MAX_SUB_LEVEL - 1)}
FirstUnplaced(P) == IF Unplaced(P) = {} THEN 0 ELSE min_u32(Unplaced(P))

SelfParent(P, i) == P[i] = i

\* the position, counted from 1, of the entry among its siblings in
\* ascending id
SiblingRank(tree, path) ==
    Cardinality({e \in Children(tree, Take(path, Len(path) - 1)) :
                    lt_u32(e.id, path[Len(path)])}) + 1

\* every page with a parent is a child of its parent's entry, numbered after
\* the children the parent already had
PlacedUnderParents(tree, P) ==
    \A i \in DOMAIN P : P[i] # 0 =>
        \E e \in tree, pe \in tree :
            /\ e.id = i /\ pe.id = P[i]
            /\ e.path = Append(pe.path, i)
            /\ e.section_number = Append(pe.section_number, SiblingRank(tree, e.path))

\* C8: in a TOC, the section number of an entry is the sequence of the
\* positions (counted from 1, in ascending id) of the entries on its path
\* among their siblings; so it is for the entries that the loop of
\* BookToc::new adds to a level that has many entries.
C8_SectionNumbers ==
    /\ (last.op = "toc" /\ last.res = "Ok") =>
          \A e \in last.tree :
              e.section_number
                  = [k \in 1..Len(e.path) |-> SiblingRank(last.tree, Take(e.path, k))]
    /\ (db.stage = "toc" /\ db.st.res = "Ok") =>
          \A e \in db.st.tree :
              e.id >= db.next - db.visits =>
                  e.section_number
                      = [k \in 1..Len(e.path) |-> SiblingRank(db.st.tree, Take(e.path, k))]

C8_Witness ==
    /\ last.op = "toc" /\ last.res = "Ok"
    /\ \E e \in last.tree, f \in last.tree, g \in last.tree :
          /\ e.section_number = <<1, 1>>
          /\ f.section_number = <<1, 2>>
          /\ g.section_number = <<1>> /\ g.id < e.id /\ e.id < f.id

\* C9 as stated: toc() fails with LevelLoop whenever the book has a page
\* that is its own parent or a page with more than MAX_SUB_LEVEL ancestors.
C9_AlwaysLevelLoop ==
    (last.op = "toc"
        /\ \E i \in DOMAIN ParentOf :
              SelfParent(ParentOf, i) \/ AncestorCount(ParentOf, i) > MAX_SUB_LEVEL)
    => last.res = "LevelLoop"

\* C9: toc() returns no TOC for a book with a page that is its own parent or
\* a page with more than MAX_SUB_LEVEL ancestors; the error is LevelLoop,
\* raised at that page, when the first page in ascending id that cannot be
\* placed is its own parent or has MAX_SUB_LEVEL ancestors or more.
C9_LevelLoop ==
    last.op = "toc" =>
        /\ (\E i \in DOMAIN ParentOf :
               SelfParent(ParentOf, i) \/ AncestorCount(ParentOf, i) > MAX_SUB_LEVEL)
              => (last.res # "Ok" /\ last.tree = {})
        /\ (/\ FirstUnplaced(ParentOf) # 0
            /\ \/ SelfParent(ParentOf, FirstUnplaced(ParentOf))
               \/ AncestorCount(ParentOf, FirstUnplaced(ParentOf)) >= MAX_SUB_LEVEL)
              => (last.res = "LevelLoop" /\ last.arg = FirstUnplaced(ParentOf))

C9_Witness ==
    /\ last.op = "toc"
    /\ last.res = "LevelLoop"
    /\ last.arg > 1
    /\ SelfParent(ParentOf, last.arg)

\* C10 as stated: a book whose pages all have between 0 and MAX_SUB_LEVEL
\* ancestors gets a TOC, every page with a parent being placed under it.
C10_UpTo32Ancestors ==
    (last.op = "toc"
        /\ \A i \in DOMAIN ParentOf : AncestorCount(ParentOf, i) \in 0..MAX_SUB_LEVEL)
    => (last.res = "Ok" /\ PlacedUnderParents(last.tree, ParentOf))

\* C10: a book whose pages all have between 0 and MAX_SUB_LEVEL - 1
\* ancestors gets a TOC in which every page with a parent is a child of its
\* parent, with the parent's section number followed by its position among
\* the parent's children; and LevelLoop is never raised at a page with so
\* few ancestors.
C10_UpTo31Ancestors ==
    last.op = "toc" =>
        /\ (\A i \in DOMAIN ParentOf : AncestorCount(ParentOf, i) \in 0..(MAX_SUB_LEVEL - 1))
              => (last.res = "Ok" /\ PlacedUnderParents(last.tree, ParentOf))
        /\ last.res = "LevelLoop"
              => AncestorCount(ParentOf, last.arg) \notin 0..(MAX_SUB_LEVEL - 1)

C10_Witness ==
    /\ last.op = "toc" /\ last.res = "Ok"
    /\ \E e \in last.tree :
          /\ Len(e.path) = MAX_SUB_LEVEL
          /\ AncestorCount(ParentOf, e.id) = MAX_SUB_LEVEL - 1
          /\ Len(e.section_number) = MAX_SUB_LEVEL

\* the walk from the parent k of the page i, through the parents recorded
\* when i is visited (the pages up to i), meets an id that is not recorded:
\* an id that is not in the index, or an id above i.  n bounds the walk.
RECURSIVE ReachesUnrecorded(_, _, _, _)
ReachesUnrecorded(P, i, k, n) ==
    IF k = 0 \/ n = 0 THEN FALSE
    ELSE IF k \notin DOMAIN P \/ k > i THEN TRUE
    ELSE ReachesUnrecorded(P, i, P[k], n - 1)

\* C11: when the first page, in ascending id, that cannot be placed has a
\* parent chain that meets an id not yet recorded, toc() fails at that page
\* with InvalidParent, carrying the parent of the page, and returns no TOC.
C11_InvalidParent ==
    (/\ last.op = "toc"
     /\ FirstUnplaced(ParentOf) # 0
     /\ ReachesUnrecorded(ParentOf, FirstUnplaced(ParentOf),
                          ParentOf[FirstUnplaced(ParentOf)], MAX_SUB_LEVEL))
    => /\ last.res = "InvalidParent"
       /\ last.arg = FirstUnplaced(ParentOf)
       /\ last.items = <<ParentOf[FirstUnplaced(ParentOf)]>>
       /\ last.tree = {}

C11_Witness ==
    /\ last.op = "toc"
    /\ last.res = "InvalidParent"
    /\ last.arg = 2
    /\ 3 \in DOMAIN ParentOf
    /\ ParentOf[2] = 3
    /\ ParentOf[1] = 0

-----------------------------------------------------------------------------
(* Properties of the codecs (SpecCodec).                                   *)

\* the item is the entry x, returned without error
ItemIs(it, x, codec) ==
    /\ it.item = "Ok"
    /\ IF codec = "kvlist" THEN it.tag = x[1] /\ it.bytes = x[2] ELSE it.entry = x

\* C12: the iterator over the bytes serialized from the entries xs returns
\* the entries of xs, in their order, and then None, having read the
\* terminator; for the KV-list codec and for the book metadata codec.
C12_CodecRoundTrip ==
    (kv.stage = "parsing" /\ ~kv.damaged) =>
        \A j \in 1..Len(kv.items) :
            /\ j <= Len(kv.xs) => ItemIs(kv.items[j], kv.xs[j], kv.codec)
            /\ j = Len(kv.xs) + 1 =>
                  (kv.items[j].item = "None" /\ kv.items[j].at = kv.p.input_len - 1)

C12_Witness ==
    /\ kv.stage = "parsing" /\ ~kv.damaged
    /\ kv.codec = "kvlist"
    /\ kv.xs = <<<<1, <<>>>>, <<3, LongValue>>>>
    /\ Len(kv.items) = 3
    /\ kv.items[2].bytes = LongValue
    /\ kv.items[3].item = "None"

IsError(it) == it.item \notin {"Ok", "None"}

\* C13: once the iterator has returned an error, every later call returns
\* None.
C13_ErrorsAreFinal ==
    kv.stage = "parsing" =>
        \A j, k \in 1..Len(kv.items) :
            (j < k /\ IsError(kv.items[j])) => kv.items[k].item = "None"

\* the length read by lv is greater than the number of bytes that follow it
\* in an input of n bytes
LengthBeyond(lv, n) == lv.res = "Ok" /\ (lv.val < 0 \/ lv.val > n - lv.s.pos)

ValidTag(codec, b) ==
    IF codec = "kvlist" THEN b \in PageTags ELSE ByteTag_try_from(b).some

\* at the position `at` of the input starts an entry with a recognized tag
\* whose declared length is greater than the number of bytes left after it
DeclaresTooMuch(codec, buf, at) ==
    /\ at < Len(buf)
    /\ ValidTag(codec, buf[at + 1])
    /\ LengthBeyond(leb128_read(Cursor(buf, at + 1)), Len(buf))

\* C14: an entry whose declared length is greater than the number of bytes
\* left in the input after the length yields InvalidLength, wherever the
\* entry is in the input.
C14_InvalidLength ==
    kv.stage = "parsing" =>
        \A j \in 1..Len(kv.items) :
            (kv.items[j].valid /\ DeclaresTooMuch(kv.codec, kv.p.input.buf, kv.items[j].at))
                => kv.items[j].item = "InvalidLength"

-----------------------------------------------------------------------------
(* Properties of the data blocks (SpecBlocks).                             *)

\* the bytes written to the block from its fragment i on: those of the
\* fragments i, i + 1, ... of the log that are in the block
RECURSIVE BlockFrom(_, _, _)
BlockFrom(log, i, block_id) ==
    IF i > Len(log) THEN <<>>
    ELSE (IF log[i].block_id = block_id THEN log[i].bytes ELSE <<>>)
            \o BlockFrom(log, i + 1, block_id)

\* C15: after the writer is finished, with_block at the location of a
\* fragment succeeds and hands over the bytes written to the block from that
\* fragment on, whatever the compression and the size hints.
C15_BlocksReadBack ==
    (db.stage = "reading" /\ db.read.fragment # 0) =>
        /\ db.read.res = "Ok"
        /\ db.read.data = BlockFrom(db.log, db.read.fragment, db.read.block_id)

-----------------------------------------------------------------------------
(* Properties of with_block (SpecReads, SpecLru).                          *)

\* the last with_block was on the i-th block written
ReadOf(i) == db.reads > 0 /\ db.read.block_id = db.log[i].block_id

\* C16: with_block on a block whose decoded payload has n bytes hands the
\* visitor the payload from the offset on for every offset in 0..n, and
\* fails with the offset error, without a panic, for every offset above n,
\* whether the block is read from the stream or is in the cache.
C16_OffsetWithinBlock ==
    \A i \in 1..Len(db.log) :
        ReadOf(i) =>
            IF db.read.offset <= Len(db.log[i].bytes)
            THEN db.read.res = "Ok" /\ db.read.data = Drop(db.log[i].bytes, db.read.offset)
            ELSE db.read.res = "OffsetBeyondBlock"

\* C17: no failed read is kept in the cache, and a read of a block written,
\* at an offset within it, succeeds whatever calls failed before it.
C17_ErrorsNotCached ==
    /\ \A j \in 1..Len(db.r.cache) : db.r.cache[j].val.ok
    /\ \A i \in 1..Len(db.log) :
          (ReadOf(i) /\ db.read.offset <= Len(db.log[i].bytes)) => db.read.res = "Ok"

\* the places of the calls that used the key k
UsesOf(uses, k) == {i \in 1..Len(uses) : uses[i] = k}

\* the place of the last call that used the key k, 0 when there is none
LastUse(uses, k) ==
    IF UsesOf(uses, k) = {} THEN 0
    ELSE CHOOSE i \in UsesOf(uses, k) : \A j \in UsesOf(uses, k) : j <= i

UsedKeys(uses) == {uses[i] : i \in 1..Len(uses)}

\* the keys used after the last use of k
UsedSince(uses, k) == {uses[j] : j \in (LastUse(uses, k) + 1)..Len(uses)}

CachedKeys(cache) == {cache[i].key : i \in 1..Len(cache)}

\* C18: the cache never holds more than 16 entries, and it holds exactly
\* the block ids that fewer than 16 other block ids were used after, a call
\* served from the cache counting as a use: the entry dropped on an insert
\* into a full cache is the least recently used one.
C18_LruBounded ==
    /\ Len(db.r.cache) <= 16
    /\ Cardinality(CachedKeys(db.r.cache)) = Len(db.r.cache)
    /\ CachedKeys(db.r.cache) =
          {k \in UsedKeys(db.uses) : Cardinality(UsedSince(db.uses, k)) < 16}

\* the first block was read again after 16 blocks, and the 17th read then
\* dropped the second block and kept the first
C18_Witness ==
    /\ db.next = ManyBlocks + 1
    /\ Len(db.r.cache) = 16
    /\ db.rereads = 1
    /\ db.uses[17] = db.ids[1]
    /\ db.ids[1] \in CachedKeys(db.r.cache)
    /\ db.ids[2] \notin CachedKeys(db.r.cache)
    /\ db.ids[3] \notin CachedKeys(db.r.cache)
    /\ db.read.res = "Ok"

\* the last with_block, on a reader that has read nothing before
Uncached == with_block(DataBlocksReader_new(Cursor(db.r.stream.buf, 0)),
                       db.read.block_id, db.read.offset)

\* C19: every with_block returns what a reader without cache returns for
\* the same block id and offset.
C19_CacheTransparent ==
    Len(db.uses) > 0 => (db.read.res = Uncached.res /\ db.read.data = Uncached.data)

-----------------------------------------------------------------------------
(* Properties of the writer's blocks (SpecBlocks).                         *)

\* the fragment e went to the block that was active, at its offset
Reused(e) == e.block_id = e.was.block_id /\ e.offset = e.was.offset

\* the fragment e went to the start of a block opened for it
Closed(e) == e.block_id > e.was.block_id /\ e.offset = 0

\* offset + hint, as a number, is above cap (a hint below zero stands for
\* a value above 2^63)
Above(offset, hint, cap) == hint < 0 \/ offset + hint > cap

\* the fragment i shares its block with an earlier fragment
Joins(i) == \E j \in 1..(i - 1) : db.log[j].block_id = db.log[i].block_id

\* C20: a fragment made while a block is active closes it exactly when the
\* hint is u64::MAX or the offset is above 0 and offset + hint is above
\* 32 KiB, and no fragment that joins a block can take it above 32 KiB
C20_ClosedAbove32K ==
    \A i \in 1..Len(db.log) :
        /\ db.log[i].was.state = "Active" =>
              IF \/ db.log[i].hint = U64Max
                 \/ /\ db.log[i].was.offset > 0
                    /\ Above(db.log[i].was.offset, db.log[i].hint, 32768)
              THEN Closed(db.log[i]) ELSE Reused(db.log[i])
        /\ Joins(i) => ~Above(db.log[i].offset, db.log[i].hint, 32768)

\* the bytes written to the block of the fragment i by the fragments
\* before it
RECURSIVE WrittenBefore(_, _, _)
WrittenBefore(log, i, j) ==
    IF j >= i THEN 0
    ELSE (IF log[j].block_id = log[i].block_id THEN Len(log[j].bytes) ELSE 0)
             + WrittenBefore(log, i, j + 1)

\* the bytes of a block without compression, from the offset on, as they
\* stand in the stream
StoredAt(buf, block_id, offset, n) ==
    SubSeq(buf, block_id + 5 + offset + 1, block_id + 5 + offset + n)

\* the hint of the fragment e fitted in the block that was active
Fitted(e) ==
    /\ e.was.state = "Active"
    /\ e.hint # U64Max
    /\ ~Above(e.was.offset, e.hint, MAX_DATA_BLOCK_SIZE)

\* C21: the block_id of a fragment is the stream position of the tag byte
\* of its block, past the prefix, and its offset is the number of bytes
\* that earlier fragments wrote to that block; a fragment whose hint fits
\* goes to the block of the fragment before it; its bytes stand in the
\* block from its offset on; and a fragment that wrote a byte shares its
\* location with no later fragment.
C21_FragmentLocation ==
    \A i \in 1..Len(db.log) :
        /\ db.log[i].block_id >= db.prefix
        /\ db.log[i].block_id < Len(db.w.stream.buf)
        /\ db.w.stream.buf[db.log[i].block_id + 1] = BlockCompression_tag(db.w.compression)
        /\ db.log[i].offset = WrittenBefore(db.log, i, 1)
        /\ (i > 1 /\ Fitted(db.log[i])) => db.log[i].block_id = db.log[i - 1].block_id
        /\ (db.w.compression.kind = "None" /\ db.stage \in {"writing", "finished"}) =>
              StoredAt(db.w.stream.buf, db.log[i].block_id, db.log[i].offset,
                       Len(db.log[i].bytes)) = db.log[i].bytes
        /\ \A j \in (i + 1)..Len(db.log) :
              db.log[i].bytes # <<>> =>
                  <<db.log[i].block_id, db.log[i].offset>>
                      # <<db.log[j].block_id, db.log[j].offset>>

\* three fragments of one byte after a prefix: the second joined the block
\* of the first at offset 1, the third opened a block of its own
C21_Witness ==
    /\ db.stage = "finished" /\ db.prefix = 6 /\ db.w.compression.kind = "None"
    /\ Len(db.log) = 3
    /\ db.log[1].block_id = 6 /\ db.log[1].offset = 0
    /\ db.log[2].block_id = 6 /\ db.log[2].offset = 1 /\ db.log[2].bytes = <<20>>
    /\ db.log[3].block_id = 13 /\ db.log[3].offset = 0 /\ db.log[3].bytes = <<30>>

\* C22: while no fragment has been opened the writer has no block to
\* close: the first fragment, with the hint u64::MAX too, and a finish
\* without fragments do not fail; that fragment opens its block where the
\* prefix ends and leaves the prefix as it was; and that finish returns
\* the stream as it was given.
C22_NothingToClose ==
    /\ db.stage = "failed" => db.log # <<>>
    /\ (db.log # <<>> /\ db.log[1].hint = U64Max) =>
          (db.log[1].block_id = db.prefix /\ Take(db.w.stream.buf, db.prefix) = Prefix(db.prefix))
    /\ (db.stage = "finished" /\ db.log = <<>>) => db.w.stream.buf = Prefix(db.prefix)

\* C23: the bytes of the prefix are the same after every operation of the
\* writer.
C23_PrefixUnchanged == Take(db.w.stream.buf, db.prefix) = Prefix(db.prefix)

\* the ids of the blocks of the fragments made
BlockIds(log) == {log[i].block_id : i \in 1..Len(log)}

\* the bytes written to the block b by the fragments from the j-th on
RECURSIVE BlockPayload(_, _, _)
BlockPayload(log, b, j) ==
    IF j > Len(log) THEN <<>>
    ELSE (IF log[j].block_id = b THEN log[j].bytes ELSE <<>>) \o BlockPayload(log, b, j + 1)

\* the bytes that stand in the stream for a payload
StoredFor(compression, payload) ==
    IF compression.kind = "None" THEN payload ELSE encoded(compression, payload)

\* where the block after b starts: at the next block id, or at the end
BlockEnd(log, b, end) ==
    IF \E c \in BlockIds(log) : c > b
    THEN CHOOSE c \in BlockIds(log) : c > b /\ \A d \in BlockIds(log) : d > b => c <= d
    ELSE end

\* the block b is closed: its length field has the number of stored bytes,
\* which follow the header unchanged up to the start of the next block
ClosedRight(buf, b, stored, end) ==
    /\ SubSeq(buf, b + 2, b + 5) = to_be_bytes_u32(Len(stored))
    /\ SubSeq(buf, b + 6, b + 5 + Len(stored)) = stored
    /\ b + 5 + Len(stored) = end

\* the blocks closed so far: all but the active one
ClosedBlocks ==
    IF db.stage = "finished" THEN BlockIds(db.log)
    ELSE IF db.stage = "writing" /\ db.w.state = "Active"
    THEN BlockIds(db.log) \ {db.w.block_id}
    ELSE {}

\* C24: every block closed by a later fragment or by finish has in its
\* length field the big-endian count of the bytes stored after its header
\* (the encoded bytes for a compressed block), its tag and its payload are
\* as written, the stream stands at the end of the payload, and the next
\* block starts there.  A payload of 2^32 - 1 bytes is closed with the
\* length ff ff ff ff; a payload of 2^32 bytes makes the close fail with an
\* error and leaves the length field as it was.
C24_LengthPatched ==
    /\ \A b \in ClosedBlocks :
          /\ db.w.stream.buf[b + 1] = BlockCompression_tag(db.w.compression)
          /\ ClosedRight(db.w.stream.buf, b,
                         StoredFor(db.w.compression, BlockPayload(db.log, b, 1)),
                         BlockEnd(db.log, b, db.w.stream.pos))
    /\ db.stage = "finished" => db.w.stream.pos = Len(db.w.stream.buf)
    /\ (db.huge.hi = 3 /\ db.stage # "huge") =>
          /\ db.stage = "closed"
          /\ SubSeq(db.w.stream.buf, db.w.block_id + 2, db.w.block_id + 5)
                = <<255, 255, 255, 255>>
          /\ db.w.stream.pos = db.w.block_id + 5 + db.huge.lo
          /\ stream_hi(db.w.stream) = db.huge.hi
    /\ (db.huge.hi = 4 /\ db.stage # "huge") =>
          /\ db.stage = "failed" /\ db.res = "Err"
          /\ SubSeq(db.w.stream.buf, db.w.block_id + 2, db.w.block_id + 5) = <<0, 0, 0, 0>>

\* a Deflate block of two fragments closed by the third fragment, whose
\* block was closed by finish
C24_Witness ==
    /\ db.stage = "finished" /\ db.w.compression = Deflate(0) /\ db.prefix = 6
    /\ Len(db.log) = 3
    /\ BlockIds(db.log) = {6, 18}
    /\ BlockPayload(db.log, 6, 1) = <<10, 20>>
    /\ SubSeq(db.w.stream.buf, 7, 11) = <<2, 0, 0, 0, 7>>
    /\ BlockPayload(db.log, 18, 1) = <<30>>
    /\ Len(db.w.stream.buf) = 29

\* C25: after every operation of the writer that returns, a failed one
\* included, the state of the writer is Wait or Active.
C25_NeverInvalid == db.res # "Panic" => db.w.state \in {"Wait", "Active"}

-----------------------------------------------------------------------------
(* Properties of build_page (SpecContent).                                 *)

\* the length read at the offset of the entry
ContentLength == leb128_read(Cursor(Drop(db.payload, db.entry.content_block_offset), 0))

\* the bytes of the block after the length
ContentRest ==
    Drop(db.payload, db.entry.content_block_offset + ContentLength.s.pos)

\* C28: build_page gives InvalidLength, and does not panic, when the offset
\* of the content is beyond the payload of the block and when the length
\* read there is above the number of bytes that follow it, whatever the
\* length; when the length fits, the content is the bytes that follow it.
C28_ContentWithinBlock ==
    db.stage = "built" =>
        /\ db.res # "Panic"
        /\ db.entry.content_block_offset > Len(db.payload) => db.res = "InvalidLength"
        /\ (db.entry.content_block_offset <= Len(db.payload) /\ ContentLength.res = "Ok") =>
              IF ContentLength.val < 0 \/ ContentLength.val > Len(ContentRest)
              THEN db.res = "InvalidLength"
              ELSE valid_utf8(Take(ContentRest, ContentLength.val)) =>
                      /\ db.res = "Ok"
                      /\ db.page.content = Take(ContentRest, ContentLength.val)

-----------------------------------------------------------------------------
(* Properties of the container written by dump (Spec).                     *)

\* the header and the k-th index entry as they stand in the stream
DumpedHeader ==
    Header_read(SubSeq(out.buf, beginning + MAGIC_SIZE + 1, beginning + MAGIC_SIZE + 16))
DumpedEntry(k) ==
    IndexEntry_read(SubSeq(out.buf, beginning + DumpedHeader.pages_pos + 24 * (k - 1) + 1,
                           beginning + DumpedHeader.pages_pos + 24 * k))

\* the length field and the stored bytes of the block at b
BlockLength(buf, b) == from_be_bytes_u32(SubSeq(buf, b + 2, b + 5))
BlockBytes(buf, b) == SubSeq(buf, b + 6, b + 5 + BlockLength(buf, b))

\* the serialized metadata of the pages from the j-th up to the one before
\* the i-th
RECURSIVE KvListsBefore(_, _, _)
KvListsBefore(pages, i, j) ==
    IF j >= i THEN <<>>
    ELSE kvlist_serialize(page_metadata_pairs(pages[j])) \o KvListsBefore(pages, i, j + 1)

\* what the metadata visitor collects for a page
MetadataOf(page) ==
    [res |-> "Ok", title |-> Some(page.title), keywords |-> page.keywords,
     description |-> page.description]

HasDumpedPages == pc # "build" /\ dumped = "Ok" /\ builder.pages # <<>>

\* C26: in the index written for a book with pages every entry has the same
\* metadata_block_id; that block is the block of no content and holds the
\* serialized metadata of all pages from its start; the
\* metadata_block_offset of a page is the length of the serialized metadata
\* of the pages before it; and the visitor of build_page, started there,
\* collects the metadata of that page and of no other.
C26_MetadataBlock ==
    HasDumpedPages =>
        \A i \in 1..Len(builder.pages) :
            /\ DumpedEntry(i).metadata_block_id = DumpedEntry(1).metadata_block_id
            /\ \A j \in 1..Len(builder.pages) :
                  DumpedEntry(j).content_block_id # DumpedEntry(i).metadata_block_id
            /\ DumpedEntry(i).metadata_block_offset = Len(KvListsBefore(builder.pages, i, 1))
            /\ BlockBytes(out.buf, DumpedEntry(i).metadata_block_id)
                  = KvListsBefore(builder.pages, Len(builder.pages) + 1, 1)
            /\ metadata_visitor(BlockBytes(out.buf, DumpedEntry(i).metadata_block_id),
                                DumpedEntry(i).metadata_block_offset)
                  = MetadataOf(builder.pages[i])

\* a book of two pages, the first with keywords, dumped after one byte: the
\* metadata of the second page starts after the two pairs of the first
C26_Witness ==
    /\ HasDumpedPages /\ beginning = 1
    /\ Len(builder.pages) = 2
    /\ builder.pages[1].keywords.some
    /\ DumpedEntry(1).metadata_block_offset = 0
    /\ DumpedEntry(2).metadata_block_offset = 8
    /\ DumpedEntry(2).metadata_block_id = DumpedEntry(1).metadata_block_id

\* where the book metadata ends and where the page index starts
MetadataEnd == beginning + 24 + Len(metadata_bytes(builder.metadata)) + 1
IndexStart == beginning + DumpedHeader.pages_pos

\* the data blocks follow one another from b up to stop: each has its 5
\* header bytes and its declared length before stop, and the last ends there
RECURSIVE BlocksFill(_, _, _)
BlocksFill(buf, b, stop) ==
    \/ b = stop
    \/ /\ b + 5 <= stop
       /\ BlockLength(buf, b) >= 0
       /\ b + 5 + BlockLength(buf, b) <= stop
       /\ BlocksFill(buf, b + 5 + BlockLength(buf, b), stop)

\* the positions of the blocks that follow one another from b up to stop
RECURSIVE BlockStarts(_, _, _)
BlockStarts(buf, b, stop) ==
    IF b + 5 > stop \/ BlockLength(buf, b) < 0 THEN {}
    ELSE {b} \union BlockStarts(buf, b + 5 + BlockLength(buf, b), stop)

\* C27: after a successful dump started at `beginning` the magic is at
\* beginning; the header at beginning + 8 has the number of pages,
\* metadata_pos = 24, fts_pos = 0xFFFFFFFF and pages_pos = the position of
\* the page index less beginning; the page index is the last
\* 24 * num_pages bytes, in the order of insertion; and the data blocks
\* fill the bytes between the book metadata and the page index, one after
\* the other, every block an entry names among them.
C27_ContainerLayout ==
    (pc # "build" /\ dumped = "Ok") =>
        /\ SubSeq(out.buf, beginning + 1, beginning + MAGIC_SIZE) = MAGIC
        /\ DumpedHeader.num_pages = Len(builder.pages)
        /\ DumpedHeader.metadata_pos = 24
        /\ DumpedHeader.fts_pos = U32Max
        /\ IndexStart = Len(out.buf) - 24 * Len(builder.pages)
        /\ IndexStart >= MetadataEnd
        /\ \A i \in 1..Len(builder.pages) :
              /\ DumpedEntry(i).id = builder.pages[i].id
              /\ DumpedEntry(i).parent_id = builder.pages[i].parent_id
              /\ {DumpedEntry(i).content_block_id, DumpedEntry(i).metadata_block_id}
                    \subseteq BlockStarts(out.buf, MetadataEnd, IndexStart)
        /\ BlocksFill(out.buf, MetadataEnd, IndexStart)

\* the same for the books with pages
C27_LayoutWithPages == builder.pages # <<>> => C27_ContainerLayout

-----------------------------------------------------------------------------
(* Properties of BookToc::new as a whole (SpecToc, SpecSiblings).          *)

\* the parents recorded when the page i is visited
Recorded(P, i) == [k \in {j \in DOMAIN P : j <= i} |-> P[k]]

\* the walk from the parent of every page with a parent fills no more than
\* MAX_SUB_LEVEL slots
WalksBounded(P) ==
    \A i \in DOMAIN P :
        P[i] # 0 => Len(parent_walk(Recorded(P, i), P[i], <<>>).path) <= MAX_SUB_LEVEL

\* the tree is a forest of the pages of P: every page once, the pages
\* without parent at the top, every other page under the entry of its parent
IsForest(tree, P) ==
    /\ {e.id : e \in tree} = DOMAIN P
    /\ Cardinality(tree) = Cardinality(DOMAIN P)
    /\ \A e \in tree :
          IF P[e.id] = 0 THEN e.path = <<e.id>>
          ELSE \E pe \in tree : pe.id = P[e.id] /\ e.path = Append(pe.path, e.id)

\* C29: BookToc::new ends for every page index after no more than
\* MAX_SUB_LEVEL parent steps per page, with an error or with a forest in
\* which every page of the index appears once, the pages without parent at
\* the top and every other page under the entry of its parent; the same
\* holds of the loop after every page it has visited.
C29_TocForest ==
    /\ last.op = "toc" =>
          /\ last.res # "Panic"
          /\ WalksBounded(ParentOf)
          /\ last.res = "Ok" => IsForest(last.tree, ParentOf)
    /\ db.stage = "toc" =>
          /\ db.st.res # "Panic"
          /\ WalksBounded(db.st.parents)
          /\ db.st.res = "Ok" => IsForest(db.st.tree, db.st.parents)

\* the same where overflow is not checked
C29_ForestUnchecked == (db.stage = "toc" /\ db.st.build = "debug") \/ C29_TocForest

-----------------------------------------------------------------------------
(* Properties of the reading operations of a loaded book (SpecDamaged).    *)

\* the book as it is just after the load of the stream: nothing in the
\* cache, the stream at its end
FreshBook == persistence_load(Cursor(out.buf, beginning))

\* what the operation op with the argument arg returns on the book bk
ResultOn(bk, op, arg, bld) ==
    CASE op = "metadata" -> Result("metadata", 0, "Ok", Book_metadata(bk).items, {})
      [] op = "pages" ->
            Result("pages", 0, "Ok", pages_iter(bk.page_index, bk.data_blocks).items, {})
      [] op = "get_page_by_id" ->
            Result("get_page_by_id", arg,
                   get_by_id(bk.page_index, bk.data_blocks, arg).res,
                   <<[res |-> get_by_id(bk.page_index, bk.data_blocks, arg).res,
                      page |-> get_by_id(bk.page_index, bk.data_blocks, arg).page]>>, {})
      [] OTHER ->
            [op |-> "toc",
             arg |-> BookToc_new(bk.data_blocks, bk.page_index, bld).at,
             res |-> BookToc_new(bk.data_blocks, bk.page_index, bld).res,
             items |-> <<BookToc_new(bk.data_blocks, bk.page_index, bld).arg>>,
             tree |-> IF BookToc_new(bk.data_blocks, bk.page_index, bld).res = "Ok"
                      THEN BookToc_new(bk.data_blocks, bk.page_index, bld).tree ELSE {}]

\* C30: whatever operations a loaded book has served, failed ones included,
\* the result of metadata(), pages(), get_page_by_id(id) and toc() is the
\* result of the same call on the book just loaded from the same stream:
\* neither the position of the stream nor the cache changes it.
C30_HistoryIndependent ==
    (pc = "loaded" /\ last.op # "-") =>
        \E bld \in Builds :
            last = ResultOn(FreshBook, last.op,
                            IF last.op = "get_page_by_id" THEN last.arg ELSE 0, bld)

\* a page is returned although an earlier call has failed on a block: the
\* cache holds the error of that block along with the blocks of the page
C30_Witness ==
    /\ pc = "loaded" /\ last.op = "get_page_by_id" /\ last.res = "Ok"
    /\ \E i \in 1..Len(book.data_blocks.cache) : ~book.data_blocks.cache[i].val.ok
    /\ \E i \in 1..Len(book.data_blocks.cache) : book.data_blocks.cache[i].val.ok

====
